---- MODULE Spec2Model ----
(***************************************************************************)
(* LogPulse back-end: the stream hub (fan-out dispatcher), the chunk       *)
(* writer with the retention sweeper, and the shutdown sequence of main.   *)
(* Each part has its own specification over the shared variable list:      *)
(*   SpecHub       StreamHub.Run / processBroadcast / HandleStream         *)
(*   SpecBroadcast concurrent callers of StreamHub.Broadcast               *)
(*   SpecWriter    concurrent calls of Writer.WriteChunk, restarts         *)
(*   SpecStorage   Writer.WriteChunk / CleanupOldChunks / cleanupEmptyDirs *)
(*   SpecShutdown  main's shutdown goroutine and the ingestor drain        *)
(*   SpecHubLive   SpecHub under the fairness of the Go scheduler          *)
(*   SpecLifecycle the shutdown sequence together with the stream hub      *)
(*   SpecQuery     the HTTP handlers QueryRange and Query                  *)
(*   SpecMatch     matchesFilter                                           *)
(*   SpecPing      the ping loop of HandleStream against the dispatcher    *)
(*   SpecDirs      cleanupEmptyDirs over a directory tree                  *)
(*   SpecLock      the mutex of the Writer                                 *)
(*   SpecRegistry  the registry lock of the hub                            *)
(*   SpecBoot      the start of main                                       *)
(*   SpecAuth      the middleware chain of the router                      *)
(*   SpecIP        extractIP of the rate limiter                           *)
(*   SpecCache     the limiter cache of IPRateLimiter                      *)
(*   SpecGroup     the grouping of logs into streams by the Loki adapter   *)
(*   SpecAlerts    the handlers of AlertHandler                            *)
(***************************************************************************)
EXTENDS Integers, Sequences, FiniteSets, TLC

(***************************************************************************)
(* Bounds of the model.  The channel capacities are the source's           *)
(* capacities (100, 100, 5000) scaled down so that "full" is reachable.    *)
(***************************************************************************)
BroadcastCap == 1
RegisterCap == 1
UnregisterCap == 1
MaxBroadcasts == 3
\* the clock: ticks to a second, the last tick, the retention horizon in ticks
TicksPerSecond == 2
MaxNow == 3
Horizon == 2
\* WriteChunk calls per process lifetime, and process restarts
MaxSeq == 2
MaxRestarts == 1
\* the ingestor: capacity of the accept channel, entries submitted
BufferSize == 2
MaxEntries == 3

Conns == {"c1", "c2"}
\* the connections that take part in SpecHub
HubConns == {"c1"}
Callers == {"w1", "w2"}

(***************************************************************************)
(* Label maps are functions from a finite set of keys to strings.  A Go    *)
(* map lookup of a missing key yields the zero value "".                   *)
(***************************************************************************)
EmptyLabels == [k \in {} |-> ""]
EntryLabels == {[service |-> "api"], [service |-> "db"]}
Filters == {EmptyLabels, [service |-> "api"]}

GetLabel(m, k) == IF k \in DOMAIN m THEN m[k] ELSE ""

\* mutant of matchesFilter: compares the presence of the key, not its value
matchesFilterKeysOnly(logLabels, filterLabels) ==
    \A k \in DOMAIN filterLabels : k \in DOMAIN logLabels

matchesFilter(logLabels, filterLabels) ==
    IF Cardinality(DOMAIN filterLabels) = 0
    THEN TRUE
    ELSE \A k \in DOMAIN filterLabels : GetLabel(logLabels, k) = filterLabels[k]

VARIABLES
    \* ---- StreamHub ----
    clients,        \* h.clients: conn -> filter (a function on the registered conns)
    register,       \* h.register channel
    unregister,     \* h.unregister channel
    broadcast,      \* h.broadcast channel
    dropCount,      \* h.dropCount
    hubPc,          \* position of Run: "select", "loop", "wait", "unreg", "stopped"
    curEntry,       \* entry processBroadcast is working on
    snap,           \* clientsCopy / filtersCopy: the copy of h.clients taken under RLock
    todo,           \* conns of clientsCopy with a matching filter not yet visited
    curConn,        \* conn whose write the dispatcher awaits
    done,           \* the done channel of the awaited write: "none", "pending", "ok", "err"
    failedConns,    \* failedConns slice
    orphans,        \* write goroutines abandoned by the dispatcher's timeout
    connState,      \* per conn: "none", "open", "closed"
    hpc,            \* per conn: position of HandleStream and its reader goroutine
    ctxDone,        \* the context passed to Run is cancelled
    bcPc,           \* per Broadcast caller: "idle" or "drop" (default branch taken)
    \* ---- history of the hub ----
    nextId,         \* number of Broadcast calls that reached the select
    enqueuedTotal,  \* entries ever put on h.broadcast
    everReset,      \* ResetDropCounter has been called
    filterOf,       \* per conn: the filter the subscriber asked for last
    lastRecv,       \* per conn: id of the entry written to it last, among the entries
                    \* enqueued while the conn was registered (0: none)
    attemptedCur,   \* conns a write was started for, for curEntry
    deliveredCur    \* conns curEntry was written to successfully

hubVars == <<clients, register, unregister, broadcast, dropCount, hubPc, curEntry,
             snap, todo, curConn, done, failedConns, orphans, connState, hpc, ctxDone,
             bcPc, nextId, enqueuedTotal, everReset, filterOf, lastRecv,
             attemptedCur, deliveredCur>>

VARIABLES
    \* ---- storage: Writer, the stream directory, the retention sweeper ----
    now,            \* the wall clock, in ticks (TicksPerSecond ticks to a second)
    chunkSeq,       \* w.chunkSeq
    mu,             \* w.mu: "free" or the WriteChunk call that holds it
    dirExists,      \* the stream directory dirPath exists
    logs,           \* chunk id -> the .log file: [data, mtime, open, sealed]; sealed is
                    \* history: a WriteChunk call returned success for the chunk
    metas,          \* chunk id -> the .meta file: [meta, mtime, open]
    wpc,            \* per WriteChunk call: "idle", "mkdir", "lock", "create", "write",
                    \* "meta", "encode"
    wid,            \* per call: chunkID as <<unix second, seq>>
    wbatch,         \* per call: the timestamps of entries, in the order of the slice
    spc,            \* CleanupOldChunks: "idle", "walk", "remove", "done"
    cutoff,         \* cutoff of the sweep
    toVisit,        \* paths listed by filepath.Walk and not visited yet
    pend,           \* path whose os.Remove is about to run, with the ModTime Walk read
    \* ---- history of the storage ----
    restarts,       \* number of process restarts
    sweepRemoved,   \* paths the sweep removed, each with the ModTime Walk read
    sweepFailed     \* paths whose os.Remove failed in the sweep

storageVars == <<now, chunkSeq, mu, dirExists, logs, metas, wpc, wid, wbatch, spc,
                 cutoff, toVisit, pend, restarts, sweepRemoved, sweepFailed>>

VARIABLES
    \* ---- shutdown sequence of main and the ingestor ----
    mainPc,         \* main: "serving", "waitComplete", "exited"
    sdPc,           \* shutdown goroutine: "waitSignal", "httpShutdown", "flushStart",
                    \* "flushWait", "cancel", "complete", "done"
    stopPc,         \* the goroutine running ingestor.Stop: "none", "running", "done"
    acceptCh,       \* the ingestor's bounded accept channel
    batcher,        \* entries held by the batcher, in order
    retried,        \* the batch in the batcher has failed to write once
    stored,         \* entries written to storage
    dropped,        \* entries counted as dropped in the error counter
    \* ---- history of the shutdown ----
    accepted,       \* entries whose ingest call returned success before the signal
    nextEntry       \* id of the next entry submitted

shutdownVars == <<mainPc, sdPc, stopPc, acceptCh, batcher, retried, stored, dropped,
                  accepted, nextEntry>>

\* the query API: one HTTP request through QueryRange or Query
VARIABLES
    qpc,        \* "idle", "handling", "executing", "failed", "done"
    qreq,       \* the request: handler and the raw URL parameters
    qcall,      \* the arguments of the handler's call of Executor.Execute
    qerr,       \* the error Executor.Execute returned
    qresp       \* the response written: status and error code

queryVars == <<qpc, qreq, qcall, qerr, qresp>>

\* one call of matchesFilter
VARIABLES
    mLabels,    \* logLabels of the call
    mFilter,    \* filterLabels of the call
    mResult     \* what the call returned: <<>> before the call, <<TRUE>> or <<FALSE>>

matchVars == <<mLabels, mFilter, mResult>>

\* the ticker loop of HandleStream, per conn: "loop" (in the select), "failed" (the
\* ping write returned an error), "returned"
VARIABLES ppc

\* one call of cleanupEmptyDirs on a directory tree
VARIABLES
    dTree,      \* the directories that exist, as paths from the storage root <<>>
    dFiles,     \* the directories that hold a regular file
    dq,         \* filepath.Walk: the paths still to visit, in the order of the walk
    dpc,        \* "idle", "walk", "done"
    dFailed     \* history: directories whose os.Remove returned an error

dirVars == <<dTree, dFiles, dq, dpc, dFailed>>

\* the locking of WriteChunk, for calls with their label sets
VARIABLES
    lpc,        \* per call: "idle", "lock" (at w.mu.Lock), "writing", "written"
    llabels,    \* per call: the labels argument
    lmu         \* w.mu: "free" or the call that holds it

lockVars == <<lpc, llabels, lmu>>

\* h.mu of the hub: "free", "R" (the dispatcher holds the read lock), or the conn
\* whose reader goroutine holds the write lock
VARIABLES hmu

\* the start of the process
VARIABLES
    bootPc,         \* main: index of its next step in BootSteps
    started,        \* the components main has initialised or launched, in order
    running,        \* the launched goroutines that have begun to run
    executorVar,    \* main's variable executor: "nil" or "set"
    evalSaw         \* what queryFunc of the alert evaluator did last: "none", "skipped"
                    \* (read nil), "used" (called Execute on the initialised executor),
                    \* "usedUninitialised"

bootVars == <<bootPc, started, running, executorVar, evalSaw>>

\* the router: one request through the middleware chain
VARIABLES
    authEnabled,    \* cfg.Auth.Enabled of the router that serves the request
    apc,            \* "idle", then the middleware the request is at, "handler", "done"
    areq,           \* the request
    astatus,        \* the status written to the response, 0 before
    ahandled        \* the route handler was called

authVars == <<authEnabled, apc, areq, astatus, ahandled>>

\* the rate limiter: extractIP applied to two requests
VARIABLES
    ipProxies,      \* the keys of trustedProxies
    ipReqs,         \* the two requests
    ipOut           \* the results of extractIP for them, <<>> before the calls

ipVars == <<ipProxies, ipReqs, ipOut>>

\* the limiter cache of IPRateLimiter
VARIABLES
    rlNow,          \* time.Now()
    ips,            \* i.ips: ip -> [limiter, lastAccess]
    rlMu,           \* i.mu: "free" or the goroutine that holds it
    rlPc,           \* per goroutine: "idle", "lock" (at i.mu.Lock()), "body"
    rlArg,          \* per GetLimiter caller: the ip of its call
    limSeq,         \* the number of limiters created by rate.NewLimiter
    rlHist,         \* per ip: the limiter returned by the last GetLimiter and when
    rlLast          \* the last operation that returned

cacheVars == <<rlNow, ips, rlMu, rlPc, rlArg, limSeq, rlHist, rlLast>>

\* the Loki adapter: the grouping loop of QueryRange and Query
VARIABLES
    grpPc,          \* "idle", "loop", "done"
    grpLogs,        \* result.Logs: a sequence of label maps (the log i has the message i)
    grpNext,        \* the index of the next log of the loop
    streamMap       \* streamMap: key -> [stream |-> labels, values |-> indexes of logs]

groupVars == <<grpPc, grpLogs, grpNext, streamMap>>

\* the alert store of AlertHandler
VARIABLES
    alerts,         \* h.alerts: id -> rule
    alMu,           \* h.mu: "free" or the handler goroutine that holds it
    alPc,           \* per handler goroutine: "idle", "called", "locked", "stamp"
    alReq,          \* per handler goroutine: its request
    alResp,         \* per handler goroutine: its last response (status, handler, id) and
                    \* the number of ids generated when it was written
    alSnap,         \* per handler goroutine: h.alerts when it took h.mu
    alSeq,          \* the number of ids generated
    alNow           \* time.Now()

alertVars == <<alerts, alMu, alPc, alReq, alResp, alSnap, alSeq, alNow>>

\* the variables of the HTTP layer
apiVars == <<authVars, ipVars, cacheVars, groupVars, alertVars>>

\* the variables of the small specifications
auxVars == <<matchVars, ppc, dirVars, lockVars, hmu, bootVars, apiVars>>

vars == <<hubVars, storageVars, shutdownVars, queryVars, auxVars>>

EmptyMap == [k \in {} |-> {}]
\* an entry on the broadcast channel; regAt is history: the conns in h.clients when
\* it was enqueued
NoEntry == [id |-> 0, labels |-> EmptyLabels, regAt |-> {}]

\* mutant of ChanHasRoom: off by one, accepts one entry more than the capacity
ChanHasRoomOffByOne(ch, cap) == Len(ch) <= cap

\* a buffered channel accepts a send without blocking iff it is not full
ChanHasRoom(ch, cap) == Len(ch) < cap

HubInit ==
    /\ clients = EmptyMap
    /\ register = <<>>
    /\ unregister = <<>>
    /\ broadcast = <<>>
    /\ dropCount = 0
    /\ hubPc = "select"
    /\ curEntry = NoEntry
    /\ snap = EmptyMap
    /\ todo = {}
    /\ curConn = "none"
    /\ done = "none"
    /\ failedConns = <<>>
    /\ orphans = {}
    /\ connState = [c \in Conns |-> "none"]
    /\ hpc = [c \in Conns |-> "new"]
    /\ ctxDone = FALSE
    /\ bcPc = [w \in Callers |-> "idle"]
    /\ nextId = 0
    /\ enqueuedTotal = 0
    /\ everReset = FALSE
    /\ filterOf = [c \in Conns |-> EmptyLabels]
    /\ lastRecv = [c \in Conns |-> 0]
    /\ attemptedCur = {}
    /\ deliveredCur = {}

gChan == <<register, unregister, broadcast>>
gDisp == <<hubPc, curEntry, snap, todo, curConn, done, failedConns>>
gCall == <<dropCount, bcPc, nextId, enqueuedTotal, everReset>>
gHist == <<filterOf, lastRecv, attemptedCur, deliveredCur>>

\* variables of the other specifications, untouched by the hub
HubFrame == UNCHANGED <<storageVars, shutdownVars, queryVars, auxVars>>
StorageFrame == UNCHANGED <<hubVars, shutdownVars, queryVars, auxVars>>
ShutdownFrame == UNCHANGED <<hubVars, storageVars, queryVars, auxVars>>
QueryFrame == UNCHANGED <<hubVars, storageVars, shutdownVars, auxVars>>

\* the concurrent callers of Writer.WriteChunk
Writers == {"p1", "p2"}
\* the entries slice of a call, as the timestamps of its entries (in ticks)
Batches == {<<1>>, <<1, 2>>, <<2, 1>>}
NoId == <<0, 0>>
NoPend == [path |-> [id |-> NoId, ext |-> "log"], seen |-> 0]

StorageInit ==
    /\ now = 0
    /\ chunkSeq = 0
    /\ mu = "free"
    /\ dirExists = FALSE
    /\ logs = EmptyMap
    /\ metas = EmptyMap
    /\ wpc = [p \in Writers |-> "idle"]
    /\ wid = [p \in Writers |-> NoId]
    /\ wbatch = [p \in Writers |-> <<>>]
    /\ spc = "idle"
    /\ cutoff = 0
    /\ toVisit = {}
    /\ pend = NoPend
    /\ restarts = 0
    /\ sweepRemoved = {}
    /\ sweepFailed = {}

ShutdownInit ==
    /\ mainPc = "serving"
    /\ sdPc = "waitSignal"
    /\ stopPc = "none"
    /\ acceptCh = <<>>
    /\ batcher = <<>>
    /\ retried = FALSE
    /\ stored = {}
    /\ dropped = {}
    /\ accepted = {}
    /\ nextEntry = 1

NoReq == [handler |-> "none"]
NoCall == [called |-> FALSE]
NoErr == [kind |-> "nil", type |-> "", msg |-> ""]
NoResp == [status |-> 0, code |-> ""]

QueryInit ==
    /\ qpc = "idle"
    /\ qreq = NoReq
    /\ qcall = NoCall
    /\ qerr = NoErr
    /\ qresp = NoResp

MatchInit ==
    /\ mLabels = EmptyLabels
    /\ mFilter = EmptyLabels
    /\ mResult = <<>>

PingInit == ppc = [c \in Conns |-> "loop"]

DirInit ==
    /\ dTree = {<<>>}
    /\ dFiles = {}
    /\ dq = <<>>
    /\ dpc = "idle"
    /\ dFailed = {}

LockCalls == {"k1", "k2", "k3"}

LockInit ==
    /\ lpc = [k \in LockCalls |-> "idle"]
    /\ llabels = [k \in LockCalls |-> EmptyLabels]
    /\ lmu = "free"

BootInit ==
    /\ bootPc = 1
    /\ started = <<>>
    /\ running = {}
    /\ executorVar = "nil"
    /\ evalSaw = "none"

NoRequest == [method |-> "", path |-> ""]

AuthInit ==
    /\ authEnabled = FALSE
    /\ apc = "idle"
    /\ areq = NoRequest
    /\ astatus = 0
    /\ ahandled = FALSE

IpInit ==
    /\ ipProxies = {}
    /\ ipReqs = <<>>
    /\ ipOut = <<>>

\* the goroutines that call GetLimiter, and the cleanup loop
LimiterCallers == {"g1", "g2"}
CleanupLoop == "cl"
LimitedIPs == {"ip1", "ip2"}
NoAccess == [limiter |-> 0, at |-> 0]
NoOp == [op |-> "none"]

CacheInit ==
    /\ rlNow = 0
    /\ ips = <<>>
    /\ rlMu = "free"
    /\ rlPc = [g \in LimiterCallers \cup {CleanupLoop} |-> "idle"]
    /\ rlArg = [g \in LimiterCallers |-> "ip1"]
    /\ limSeq = 0
    /\ rlHist = [ip \in LimitedIPs |-> NoAccess]
    /\ rlLast = NoOp

GroupInit ==
    /\ grpPc = "idle"
    /\ grpLogs = <<>>
    /\ grpNext = 1
    /\ streamMap = <<>>

AlertGoroutines == {"h1", "h2"}
NoAlertReq == [op |-> "none"]
NoAlertResp == [status |-> 0, op |-> "none", id |-> 0, seq |-> 0]

AlertInit ==
    /\ alerts = <<>>
    /\ alMu = "free"
    /\ alPc = [g \in AlertGoroutines |-> "idle"]
    /\ alReq = [g \in AlertGoroutines |-> NoAlertReq]
    /\ alResp = [g \in AlertGoroutines |-> NoAlertResp]
    /\ alSnap = [g \in AlertGoroutines |-> <<>>]
    /\ alSeq = 0
    /\ alNow = 0

ApiInit == AuthInit /\ IpInit /\ CacheInit /\ GroupInit /\ AlertInit

AuxInit ==
    MatchInit /\ PingInit /\ DirInit /\ LockInit /\ hmu = "free" /\ BootInit /\ ApiInit

Init == HubInit /\ StorageInit /\ ShutdownInit /\ QueryInit /\ AuxInit

(***************************************************************************)
(* StreamHub.Broadcast: a select with a default branch.  The send and the  *)
(* choice of the default branch are one atomic step of the Go runtime; the *)
(* atomic.AddInt64 on dropCount is a second step of the caller.            *)
(***************************************************************************)
Broadcast(w, l) ==
    /\ bcPc[w] = "idle"
    /\ nextId < MaxBroadcasts
    /\ nextId' = nextId + 1
    /\ IF ChanHasRoom(broadcast, BroadcastCap)
       THEN /\ broadcast' = Append(broadcast,
                                   [id |-> nextId', labels |-> l, regAt |-> DOMAIN clients])
            /\ enqueuedTotal' = enqueuedTotal + 1
            /\ bcPc' = bcPc
       ELSE /\ bcPc' = [bcPc EXCEPT ![w] = "drop"]
            /\ UNCHANGED <<broadcast, enqueuedTotal>>
    /\ UNCHANGED <<clients, register, unregister, dropCount, everReset, gDisp, gHist,
                   orphans, connState, hpc, ctxDone>>
    /\ HubFrame

\* drops := atomic.AddInt64(&h.dropCount, 1)
BroadcastDrop(w) ==
    /\ bcPc[w] = "drop"
    /\ dropCount' = dropCount + 1
    /\ bcPc' = [bcPc EXCEPT ![w] = "idle"]
    /\ UNCHANGED <<clients, gChan, gDisp, gHist, orphans, connState, hpc, ctxDone,
                   nextId, enqueuedTotal, everReset>>
    /\ HubFrame

ResetDropCounter ==
    /\ dropCount' = 0
    /\ everReset' = TRUE
    /\ UNCHANGED <<clients, gChan, gDisp, gHist, orphans, connState, hpc, ctxDone,
                   nextId, enqueuedTotal, bcPc>>
    /\ HubFrame

(***************************************************************************)
(* StreamHub.Run: one select over ctx.Done, register, unregister and       *)
(* broadcast (the status ticker only logs).  Go picks any ready case.      *)
(***************************************************************************)
NextPc(t) == IF t # {} THEN "loop" ELSE "unreg"

\* case <-ctx.Done(): closeAllClients, return
HubCtxDone ==
    /\ hubPc = "select"
    /\ ctxDone
    /\ connState' = [c \in Conns |-> IF c \in DOMAIN clients THEN "closed" ELSE connState[c]]
    /\ clients' = EmptyMap
    /\ hubPc' = "stopped"
    /\ UNCHANGED <<gChan, curEntry, snap, todo, curConn, done, failedConns, gCall, gHist,
                   orphans, hpc, ctxDone>>
    /\ HubFrame

\* case reg := <-h.register
HubRegister ==
    /\ hubPc = "select"
    /\ register # <<>>
    /\ clients' = (Head(register).conn :> Head(register).filter) @@ clients
    /\ register' = Tail(register)
    /\ UNCHANGED <<unregister, broadcast, gDisp, gCall, gHist, orphans, connState, hpc,
                   ctxDone>>
    /\ HubFrame

\* case conn := <-h.unregister
HubUnregister ==
    /\ hubPc = "select"
    /\ unregister # <<>>
    /\ unregister' = Tail(unregister)
    /\ LET c == Head(unregister) IN
         IF c \in DOMAIN clients
         THEN /\ clients' = [d \in DOMAIN clients \ {c} |-> clients[d]]
              /\ connState' = [connState EXCEPT ![c] = "closed"]
         ELSE UNCHANGED <<clients, connState>>
    /\ UNCHANGED <<register, broadcast, gDisp, gCall, gHist, orphans, hpc, ctxDone>>
    /\ HubFrame

\* the conns of the copy the loop of processBroadcast does not `continue` past
MatchingConns(e, s) == {c \in DOMAIN s : matchesFilter(e.labels, s[c])}

\* case entry := <-h.broadcast, and the copy-out of processBroadcast under RLock.
\* The filter test of the loop reads only the copies, so it is applied here.
HubBroadcast ==
    /\ hubPc = "select"
    /\ broadcast # <<>>
    /\ LET e == Head(broadcast)
           t == MatchingConns(e, clients)
       IN /\ broadcast' = Tail(broadcast)
          /\ curEntry' = e
          /\ snap' = clients
          /\ todo' = t
          /\ failedConns' = <<>>
          /\ hubPc' = NextPc(t)
    /\ attemptedCur' = {}
    /\ deliveredCur' = {}
    /\ UNCHANGED <<clients, register, unregister, curConn, done, gCall, filterOf,
                   lastRecv, orphans, connState, hpc, ctxDone>>
    /\ HubFrame

\* go func(c, m) { c.SetWriteDeadline(...); done <- c.WriteMessage(...) }
HubLoopWrite(c) ==
    /\ hubPc = "loop"
    /\ c \in todo
    /\ curConn' = c
    /\ done' = "pending"
    /\ hubPc' = "wait"
    /\ attemptedCur' = attemptedCur \cup {c}
    /\ UNCHANGED <<clients, gChan, curEntry, snap, todo, failedConns, gCall, filterOf,
                   lastRecv, deliveredCur, orphans, connState, hpc, ctxDone>>
    /\ HubFrame

\* the write goroutine the dispatcher awaits: WriteMessage returns nil
WriteOk ==
    /\ done = "pending"
    /\ connState[curConn] = "open"
    /\ done' = "ok"
    /\ lastRecv' = IF curConn \in curEntry.regAt
                   THEN [lastRecv EXCEPT ![curConn] = curEntry.id]
                   ELSE lastRecv
    /\ deliveredCur' = deliveredCur \cup {curConn}
    /\ UNCHANGED <<clients, gChan, hubPc, curEntry, snap, todo, curConn, failedConns,
                   gCall, filterOf, attemptedCur, orphans, connState, hpc, ctxDone>>
    /\ HubFrame

\* WriteMessage returns an error (closed connection, deadline, network)
WriteErr ==
    /\ done = "pending"
    /\ done' = "err"
    /\ UNCHANGED <<clients, gChan, hubPc, curEntry, snap, todo, curConn, failedConns,
                   gCall, gHist, orphans, connState, hpc, ctxDone>>
    /\ HubFrame

FinishConn(f) ==
    /\ todo' = todo \ {curConn}
    /\ failedConns' = f
    /\ done' = "none"
    /\ curConn' = "none"
    /\ hubPc' = NextPc(todo')
    /\ UNCHANGED <<clients, gChan, curEntry, snap, gCall, gHist, connState, hpc, ctxDone>>
    /\ HubFrame

\* case err := <-done, err == nil
HubDoneOk ==
    /\ hubPc = "wait"
    /\ done = "ok"
    /\ FinishConn(failedConns)
    /\ UNCHANGED orphans

\* case err := <-done, err != nil
HubDoneErr ==
    /\ hubPc = "wait"
    /\ done = "err"
    /\ FinishConn(Append(failedConns, curConn))
    /\ UNCHANGED orphans

\* case <-time.After(6 * time.Second): the write goroutine is left running
HubTimeout ==
    /\ hubPc = "wait"
    /\ orphans' = IF done = "pending"
                  THEN orphans \cup {[conn |-> curConn, id |-> curEntry.id,
                                      reg |-> curConn \in curEntry.regAt]}
                  ELSE orphans
    /\ FinishConn(Append(failedConns, curConn))

\* for _, conn := range failedConns { h.unregister <- conn }
HubUnregSend ==
    /\ hubPc = "unreg"
    /\ failedConns # <<>>
    /\ ChanHasRoom(unregister, UnregisterCap)
    /\ unregister' = Append(unregister, Head(failedConns))
    /\ failedConns' = Tail(failedConns)
    /\ hubPc' = hubPc
    /\ UNCHANGED <<clients, register, broadcast, curEntry, snap, todo, curConn, done,
                   gCall, gHist, orphans, connState, hpc, ctxDone>>
    /\ HubFrame

\* processBroadcast returns to the select of Run; its locals are gone
HubReturn ==
    /\ hubPc = "unreg"
    /\ failedConns = <<>>
    /\ hubPc' = "select"
    /\ curEntry' = NoEntry
    /\ snap' = EmptyMap
    /\ attemptedCur' = {}
    /\ deliveredCur' = {}
    /\ UNCHANGED <<clients, gChan, todo, curConn, done, failedConns, gCall, filterOf,
                   lastRecv, orphans, connState, hpc, ctxDone>>
    /\ HubFrame

\* a write goroutine the dispatcher no longer waits for: WriteMessage returns nil
OrphanOk(o) ==
    /\ o \in orphans
    /\ connState[o.conn] = "open"
    /\ orphans' = orphans \ {o}
    /\ lastRecv' = IF o.reg THEN [lastRecv EXCEPT ![o.conn] = o.id] ELSE lastRecv
    /\ deliveredCur' = IF o.id = curEntry.id THEN deliveredCur \cup {o.conn}
                       ELSE deliveredCur
    /\ UNCHANGED <<clients, gChan, gDisp, gCall, filterOf, attemptedCur, connState, hpc,
                   ctxDone>>
    /\ HubFrame

\* ... or an error
OrphanErr(o) ==
    /\ o \in orphans
    /\ orphans' = orphans \ {o}
    /\ UNCHANGED <<clients, gChan, gDisp, gCall, gHist, connState, hpc, ctxDone>>
    /\ HubFrame

(***************************************************************************)
(* StreamHandler.HandleStream and its reader goroutine.                    *)
(***************************************************************************)
\* upgrade, filter from the query string, h.hub.register <- registration
Connect(c, f) ==
    /\ hpc[c] = "new"
    /\ ChanHasRoom(register, RegisterCap)
    /\ register' = Append(register, [conn |-> c, filter |-> f])
    /\ connState' = [connState EXCEPT ![c] = "open"]
    /\ hpc' = [hpc EXCEPT ![c] = "serving"]
    /\ filterOf' = [filterOf EXCEPT ![c] = f]
    /\ UNCHANGED <<clients, unregister, broadcast, gDisp, gCall, lastRecv, attemptedCur,
                   deliveredCur, orphans, ctxDone>>
    /\ HubFrame

\* conn.ReadMessage returns an error: the reader goroutine returns
ReaderError(c) ==
    /\ hpc[c] = "serving"
    /\ hpc' = [hpc EXCEPT ![c] = "readerExit"]
    /\ UNCHANGED <<clients, gChan, gDisp, gCall, gHist, orphans, connState, ctxDone>>
    /\ HubFrame

\* the reader's deferred h.hub.unregister <- conn
ReaderUnregister(c) ==
    /\ hpc[c] = "readerExit"
    /\ ChanHasRoom(unregister, UnregisterCap)
    /\ unregister' = Append(unregister, c)
    /\ hpc' = [hpc EXCEPT ![c] = "done"]
    /\ UNCHANGED <<clients, register, broadcast, gDisp, gCall, gHist, orphans,
                   connState, ctxDone>>
    /\ HubFrame

\* a "filter" message: h.hub.clients[conn] = newFilter under the write lock
FilterUpdate(c, f) ==
    /\ hpc[c] = "serving"
    /\ clients' = (c :> f) @@ clients
    /\ clients' # clients
    /\ filterOf' = [filterOf EXCEPT ![c] = f]
    /\ UNCHANGED <<gChan, gDisp, gCall, lastRecv, attemptedCur, deliveredCur, orphans,
                   connState, hpc, ctxDone>>
    /\ HubFrame

\* the context handed to Run is cancelled
CtxCancel ==
    /\ ~ctxDone
    /\ ctxDone' = TRUE
    /\ UNCHANGED <<clients, gChan, gDisp, gCall, gHist, orphans, connState, hpc>>
    /\ HubFrame

\* the dispatcher (Run and processBroadcast) and the handlers of HubConns
HubDispatch ==
    \/ HubCtxDone
    \/ HubRegister
    \/ HubUnregister
    \/ HubBroadcast
    \/ \E c \in HubConns : HubLoopWrite(c)
    \/ WriteOk
    \/ WriteErr
    \/ HubDoneOk
    \/ HubDoneErr
    \/ HubTimeout
    \/ HubUnregSend
    \/ HubReturn
    \/ \E c \in HubConns, f \in Filters : Connect(c, f)
    \/ \E c \in HubConns : ReaderError(c)
    \/ \E c \in HubConns : ReaderUnregister(c)
    \/ CtxCancel

(***************************************************************************)
(* SpecHub: delivery.  One producer, the dispatcher, the abandoned write   *)
(* goroutines and a subscriber that connects, changes its filter and       *)
(* leaves.                                                                 *)
(***************************************************************************)
HubNext ==
    \/ \E l \in EntryLabels : Broadcast("w1", l)
    \/ BroadcastDrop("w1")
    \/ HubDispatch
    \/ \E o \in orphans : OrphanOk(o)
    \/ \E o \in orphans : OrphanErr(o)
    \/ \E c \in HubConns, f \in Filters : FilterUpdate(c, f)

SpecHub == Init /\ [][HubNext]_vars

(***************************************************************************)
(* SpecBroadcast: the producers' side.  Concurrent Broadcast callers and   *)
(* ResetDropCounter against a dispatcher that may be slow, blocked on its  *)
(* own unregister channel, or stopped.                                     *)
(***************************************************************************)
BroadcastNext ==
    \/ \E w \in Callers, l \in EntryLabels : Broadcast(w, l)
    \/ \E w \in Callers : BroadcastDrop(w)
    \/ ResetDropCounter
    \/ HubDispatch

SpecBroadcast == Init /\ [][BroadcastNext]_vars


(***************************************************************************)
(*                        Properties of the hub                            *)
(***************************************************************************)
\* the filter is a subset of the labels: every key of the filter is a key of the
\* labels, with the same value
FilterSubset(f, labels) == \A k \in DOMAIN f : k \in DOMAIN labels /\ labels[k] = f[k]

\* Broadcast calls that have returned
BcReturned == nextId - Cardinality({w \in Callers : bcPc[w] = "drop"})

C2_Inv ==
    /\ Len(broadcast) <= BroadcastCap
    /\ ~everReset => enqueuedTotal + dropCount = BcReturned
    /\ \A w \in Callers :
         /\ (bcPc[w] = "idle" /\ nextId < MaxBroadcasts)
               => ENABLED (\E l \in EntryLabels : Broadcast(w, l))
         /\ bcPc[w] = "drop" => ENABLED BroadcastDrop(w)

C2_Step ==
    /\ nextId' # nextId =>
         IF Len(broadcast) < BroadcastCap
         THEN /\ Len(broadcast') = Len(broadcast) + 1
              /\ SubSeq(broadcast', 1, Len(broadcast)) = broadcast
              /\ broadcast'[Len(broadcast')].id = nextId'
              /\ dropCount' = dropCount
              /\ bcPc' = bcPc
         ELSE /\ broadcast' = broadcast
              /\ dropCount' = dropCount
              /\ \E w \in Callers : bcPc[w] = "idle" /\ bcPc' = [bcPc EXCEPT ![w] = "drop"]
    /\ (nextId' = nextId /\ bcPc' # bcPc) =>
         /\ dropCount' = dropCount + 1
         /\ \E w \in Callers : bcPc[w] = "drop" /\ bcPc' = [bcPc EXCEPT ![w] = "idle"]
    /\ dropCount' # dropCount => (bcPc' # bcPc \/ (everReset' /\ dropCount' = 0))

\* C2: a Broadcast call is never blocked, whatever the dispatcher does: with room on
\* the broadcast channel the entry is appended to it, otherwise the channel is left as
\* it is and the caller adds exactly one to dropCount; the channel never holds more
\* than its capacity; and as long as ResetDropCounter was not called, the entries
\* enqueued plus dropCount equal the number of Broadcast calls that returned.
C2_BroadcastNeverBlocks == []C2_Inv /\ [][C2_Step]_vars

\* a drop was counted on a full channel, a second caller is in the default branch,
\* and the dispatcher has stopped
C2_Witness ==
    /\ dropCount >= 1
    /\ Len(broadcast) = BroadcastCap
    /\ \E w \in Callers : bcPc[w] = "drop"
    /\ hubPc = "stopped"

C3_Inv ==
    /\ hubPc \in {"loop", "wait", "unreg"} =>
         /\ attemptedCur \cup todo
               = {c \in DOMAIN snap : FilterSubset(snap[c], curEntry.labels)}
         /\ deliveredCur \subseteq attemptedCur
    /\ hubPc = "unreg" => todo = {}
    /\ hubPc = "wait" => curConn \in attemptedCur

C3_Step ==
    (hubPc = "select" /\ hubPc' \in {"loop", "wait", "unreg"})
        => /\ broadcast # <<>>
           /\ curEntry' = Head(broadcast)
           /\ snap' = clients

C4_DeliveryInEnqueueOrder == [][\A c \in Conns : lastRecv'[c] >= lastRecv[c]]_vars

(***************************************************************************)
(*               The chunk writer and the retention sweeper                *)
(*                                                                         *)
(* One stream directory.  A chunk id is <<unix second, seq>>; its files    *)
(* are the paths [id, "log"] and [id, "meta"].  Timestamps, the clock and  *)
(* modification times are in ticks; Time.Unix() truncates to seconds.      *)
(***************************************************************************)
Unix(t) == t \div TicksPerSecond

LogPath(id) == [id |-> id, ext |-> "log"]
MetaPath(id) == [id |-> id, ext |-> "meta"]

\* the regular files of the directory
Listing == {LogPath(i) : i \in DOMAIN logs} \cup {MetaPath(i) : i \in DOMAIN metas}

FileExists(f) == f \in Listing
ModTime(f) == IF f.ext = "log" THEN logs[f.id].mtime ELSE metas[f.id].mtime

\* filepath.Walk visits the names of a directory in lexical order
PathLess(a, b) ==
    \/ a.id[1] < b.id[1]
    \/ a.id[1] = b.id[1] /\ a.id[2] < b.id[2]
    \/ a.id = b.id /\ a.ext = "log" /\ b.ext = "meta"

FirstPath(S) == CHOOSE a \in S : \A b \in S \ {a} : PathLess(a, b)

RemoveKey(f, k) == [i \in DOMAIN f \ {k} |-> f[i]]
CloseFile(f, k) == IF k \in DOMAIN f THEN [f EXCEPT ![k].open = FALSE] ELSE f
\* the data file of a chunk whose WriteChunk call returns success
SealFile(f, k) ==
    IF k \in DOMAIN f THEN [f EXCEPT ![k].open = FALSE, ![k].sealed = TRUE] ELSE f

\* the sidecar before json.Encoder.Encode has written it
NoMeta == [written |-> FALSE, start |-> 0, endT |-> 0, count |-> 0]

\* startTime / endTime of WriteChunk: the first and the last entry of the slice
StartTime(b) == b[1]
EndTime(b) == b[Len(b)]

\* mutant of IsOld: a file exactly at the cutoff counts as old
IsOldOrAtCutoff(t, c) == t <= c

\* info.ModTime().Before(cutoff)
IsOld(t, c) == t < c

\* the clock advances
Tick ==
    /\ now < MaxNow
    /\ now' = now + 1
    /\ UNCHANGED <<chunkSeq, mu, dirExists, logs, metas, wpc, wid, wbatch, spc,
                   cutoff, toVisit, pend, restarts, sweepRemoved, sweepFailed>>
    /\ StorageFrame

\* return of WriteChunk: the locals die, the deferred Unlock runs if the lock is held
WcReturn(p) ==
    /\ wpc' = [wpc EXCEPT ![p] = "idle"]
    /\ wid' = [wid EXCEPT ![p] = NoId]
    /\ wbatch' = [wbatch EXCEPT ![p] = <<>>]
    /\ mu' = IF mu = p THEN "free" ELSE mu

\* seq := atomic.AddInt64(&w.chunkSeq, 1); chunkID from time.Now().Unix() and seq
WcBegin(p, b) ==
    /\ wpc[p] = "idle"
    /\ chunkSeq < MaxSeq
    /\ chunkSeq' = chunkSeq + 1
    /\ wid' = [wid EXCEPT ![p] = <<Unix(now), chunkSeq + 1>>]
    /\ wbatch' = [wbatch EXCEPT ![p] = b]
    /\ wpc' = [wpc EXCEPT ![p] = "mkdir"]
    /\ UNCHANGED <<now, mu, dirExists, logs, metas, spc, cutoff, toVisit, pend, restarts,
                   sweepRemoved, sweepFailed>>
    /\ StorageFrame

\* os.MkdirAll(dirPath) succeeds
WcMkdir(p) ==
    /\ wpc[p] = "mkdir"
    /\ dirExists' = TRUE
    /\ wpc' = [wpc EXCEPT ![p] = "lock"]
    /\ UNCHANGED <<now, chunkSeq, mu, logs, metas, wid, wbatch, spc, cutoff,
                   toVisit, pend, restarts, sweepRemoved, sweepFailed>>
    /\ StorageFrame

\* os.MkdirAll(dirPath) fails: return err
WcMkdirFail(p) ==
    /\ wpc[p] = "mkdir"
    /\ WcReturn(p)
    /\ UNCHANGED <<now, chunkSeq, dirExists, logs, metas, spc, cutoff, toVisit, pend,
                   restarts, sweepRemoved, sweepFailed>>
    /\ StorageFrame

\* w.mu.Lock()
WcLock(p) ==
    /\ wpc[p] = "lock"
    /\ mu = "free"
    /\ mu' = p
    /\ wpc' = [wpc EXCEPT ![p] = "create"]
    /\ UNCHANGED <<now, chunkSeq, dirExists, logs, metas, wid, wbatch, spc, cutoff,
                   toVisit, pend, restarts, sweepRemoved, sweepFailed>>
    /\ StorageFrame

\* os.Create(chunkPath) succeeds: creates the file, or truncates the one that exists
WcCreate(p) ==
    /\ wpc[p] = "create"
    /\ dirExists
    /\ logs' = (wid[p] :> [data |-> <<>>, mtime |-> now, open |-> TRUE,
                           sealed |-> wid[p] \in DOMAIN logs /\ logs[wid[p]].sealed])
                @@ logs
    /\ wpc' = [wpc EXCEPT ![p] = "write"]
    /\ UNCHANGED <<now, chunkSeq, mu, dirExists, metas, wid, wbatch, spc, cutoff,
                   toVisit, pend, restarts, sweepRemoved, sweepFailed>>
    /\ StorageFrame

\* os.Create(chunkPath) fails (always so when the directory is gone): return err
WcCreateFail(p) ==
    /\ wpc[p] = "create"
    /\ WcReturn(p)
    /\ UNCHANGED <<now, chunkSeq, dirExists, logs, metas, spc, cutoff, toVisit, pend,
                   restarts, sweepRemoved, sweepFailed>>
    /\ StorageFrame

\* what the writes reach of a file: nothing if the sweep has unlinked it
WriteData(id, d) ==
    IF id \in DOMAIN logs
    THEN [logs EXCEPT ![id] = [@ EXCEPT !.data = d, !.mtime = now]]
    ELSE logs

\* the loop of writer.Write and writer.Flush succeed: every entry is in the file
WcFlushOk(p) ==
    /\ wpc[p] = "write"
    /\ logs' = WriteData(wid[p], wbatch[p])
    /\ wpc' = [wpc EXCEPT ![p] = "meta"]
    /\ UNCHANGED <<now, chunkSeq, mu, dirExists, metas, wid, wbatch, spc, cutoff,
                   toVisit, pend, restarts, sweepRemoved, sweepFailed>>
    /\ StorageFrame

\* a write fails (the errors of writer.Write are ignored and stick) and Flush
\* returns it: the first k entries have reached the file; return err, the
\* deferred file.Close runs
WcFlushFail(p, k) ==
    /\ wpc[p] = "write"
    /\ k < Len(wbatch[p])
    /\ logs' = CloseFile(IF k = 0 THEN logs
                         ELSE WriteData(wid[p], SubSeq(wbatch[p], 1, k)), wid[p])
    /\ WcReturn(p)
    /\ UNCHANGED <<now, chunkSeq, dirExists, metas, spc, cutoff, toVisit, pend, restarts,
                   sweepRemoved, sweepFailed>>
    /\ StorageFrame

\* os.Create(metaPath) succeeds
WcMetaCreate(p) ==
    /\ wpc[p] = "meta"
    /\ dirExists
    /\ metas' = (wid[p] :> [meta |-> NoMeta, mtime |-> now, open |-> TRUE]) @@ metas
    /\ wpc' = [wpc EXCEPT ![p] = "encode"]
    /\ UNCHANGED <<now, chunkSeq, mu, dirExists, logs, wid, wbatch, spc, cutoff,
                   toVisit, pend, restarts, sweepRemoved, sweepFailed>>
    /\ StorageFrame

\* os.Create(metaPath) fails: return err, the deferred file.Close runs
WcMetaCreateFail(p) ==
    /\ wpc[p] = "meta"
    /\ logs' = CloseFile(logs, wid[p])
    /\ WcReturn(p)
    /\ UNCHANGED <<now, chunkSeq, dirExists, metas, spc, cutoff, toVisit, pend, restarts,
                   sweepRemoved, sweepFailed>>
    /\ StorageFrame

\* models.ChunkMeta as stored: StartTime.Unix(), EndTime.Unix(), len(entries)
ChunkMeta(b) ==
    [written |-> TRUE, start |-> Unix(StartTime(b)), endT |-> Unix(EndTime(b)),
     count |-> Len(b)]

\* Encode writes the sidecar; return chunkID, startTime, endTime, nil; the deferred
\* metaFile.Close, file.Close and Unlock run
WcEncodeOk(p) ==
    /\ wpc[p] = "encode"
    /\ metas' = IF wid[p] \in DOMAIN metas
                THEN [metas EXCEPT ![wid[p]] =
                         [meta |-> ChunkMeta(wbatch[p]), mtime |-> now, open |-> FALSE]]
                ELSE metas
    /\ logs' = SealFile(logs, wid[p])
    /\ WcReturn(p)
    /\ UNCHANGED <<now, chunkSeq, dirExists, spc, cutoff, toVisit, pend, restarts,
                   sweepRemoved, sweepFailed>>
    /\ StorageFrame

\* Encode fails; its error is not looked at: the same return
WcEncodeFail(p) ==
    /\ wpc[p] = "encode"
    /\ metas' = CloseFile(metas, wid[p])
    /\ logs' = SealFile(logs, wid[p])
    /\ WcReturn(p)
    /\ UNCHANGED <<now, chunkSeq, dirExists, spc, cutoff, toVisit, pend, restarts,
                   sweepRemoved, sweepFailed>>
    /\ StorageFrame

\* the process ends at any point and starts again: NewWriter leaves chunkSeq zero;
\* the files stay as they are, no descriptor is open
Restart ==
    /\ restarts < MaxRestarts
    /\ restarts' = restarts + 1
    /\ chunkSeq' = 0
    /\ mu' = "free"
    /\ wpc' = [p \in Writers |-> "idle"]
    /\ wid' = [p \in Writers |-> NoId]
    /\ wbatch' = [p \in Writers |-> <<>>]
    /\ logs' = [i \in DOMAIN logs |-> [logs[i] EXCEPT !.open = FALSE]]
    /\ metas' = [i \in DOMAIN metas |-> [metas[i] EXCEPT !.open = FALSE]]
    /\ spc' = "idle"
    /\ toVisit' = {}
    /\ pend' = NoPend
    /\ sweepRemoved' = {}
    /\ sweepFailed' = {}
    /\ UNCHANGED <<now, dirExists, cutoff>>
    /\ StorageFrame

(***************************************************************************)
(* CleanupOldChunks.  filepath.Walk reads the names of the directory, then *)
(* for each name, in lexical order, calls Lstat and the callback; the      *)
(* callback compares the ModTime that Lstat read and calls os.Remove.      *)
(***************************************************************************)
\* the ticker fires: cutoff := time.Now().AddDate(0, 0, -retentionDays); Walk lists
SweepStart ==
    /\ spc \in {"idle", "done"}
    /\ cutoff' = now - Horizon
    /\ toVisit' = Listing
    /\ spc' = "walk"
    /\ sweepRemoved' = {}
    /\ sweepFailed' = {}
    /\ UNCHANGED <<now, chunkSeq, mu, dirExists, logs, metas, wpc, wid, wbatch, pend,
                   restarts>>
    /\ StorageFrame

\* Lstat of the next name and the callback up to os.Remove
SweepVisit ==
    /\ spc = "walk"
    /\ toVisit # {}
    /\ LET f == FirstPath(toVisit) IN
        /\ toVisit' = toVisit \ {f}
        /\ IF FileExists(f) /\ IsOld(ModTime(f), cutoff)
           THEN /\ spc' = "remove"
                /\ pend' = [path |-> f, seen |-> ModTime(f)]
           ELSE UNCHANGED <<spc, pend>>
    /\ UNCHANGED <<now, chunkSeq, mu, dirExists, logs, metas, wpc, wid, wbatch, cutoff,
                   restarts, sweepRemoved, sweepFailed>>
    /\ StorageFrame

\* os.Remove(path) succeeds
SweepRemove ==
    /\ spc = "remove"
    /\ FileExists(pend.path)
    /\ sweepRemoved' = sweepRemoved \cup
           {[path |-> pend.path, seen |-> pend.seen, mtime |-> ModTime(pend.path)]}
    /\ IF pend.path.ext = "log"
       THEN logs' = RemoveKey(logs, pend.path.id) /\ UNCHANGED metas
       ELSE metas' = RemoveKey(metas, pend.path.id) /\ UNCHANGED logs
    /\ spc' = "walk"
    /\ pend' = NoPend
    /\ UNCHANGED <<now, chunkSeq, mu, dirExists, wpc, wid, wbatch, cutoff, toVisit,
                   restarts, sweepFailed>>
    /\ StorageFrame

\* os.Remove(path) fails: "Failed to delete" is logged, the walk goes on
SweepRemoveFail ==
    /\ spc = "remove"
    /\ sweepFailed' = sweepFailed \cup {pend.path}
    /\ spc' = "walk"
    /\ pend' = NoPend
    /\ UNCHANGED <<now, chunkSeq, mu, dirExists, logs, metas, wpc, wid, wbatch, cutoff,
                   toVisit, restarts, sweepRemoved>>
    /\ StorageFrame

\* the walk is over; cleanupEmptyDirs removes the directory if it is empty (the
\* error of that os.Remove is ignored); CleanupOldChunks returns
SweepDirs ==
    /\ spc = "walk"
    /\ toVisit = {}
    /\ \E removed \in BOOLEAN :
          dirExists' = IF Listing = {} /\ removed THEN FALSE ELSE dirExists
    /\ spc' = "done"
    /\ UNCHANGED <<now, chunkSeq, mu, logs, metas, wpc, wid, wbatch, cutoff,
                   toVisit, pend, restarts, sweepRemoved, sweepFailed>>
    /\ StorageFrame

\* the steps of the WriteChunk call p, for an entries slice of B
WriteChunk(p, B) ==
    \/ \E b \in B : WcBegin(p, b)
    \/ WcMkdir(p)
    \/ WcMkdirFail(p)
    \/ WcLock(p)
    \/ WcCreate(p)
    \/ WcCreateFail(p)
    \/ WcFlushOk(p)
    \/ \E k \in 0..1 : WcFlushFail(p, k)
    \/ WcMetaCreate(p)
    \/ WcMetaCreateFail(p)
    \/ WcEncodeOk(p)
    \/ WcEncodeFail(p)

(***************************************************************************)
(* SpecWriter: concurrent WriteChunk calls of one Writer, and the process  *)
(* restarting, all within one tick of the clock.                           *)
(***************************************************************************)
WriterNext ==
    \/ \E p \in Writers : WriteChunk(p, Batches)
    \/ Restart

SpecWriter == Init /\ [][WriterNext]_vars

(***************************************************************************)
(* SpecStorage: WriteChunk calls against the retention sweeper.            *)
(***************************************************************************)
StorageNext ==
    \/ Tick
    \/ WriteChunk("p1", {<<1, 2>>})
    \/ SweepStart
    \/ SweepVisit
    \/ SweepRemove
    \/ SweepRemoveFail
    \/ SweepDirs

SpecStorage == Init /\ [][StorageNext]_vars

(***************************************************************************)
(*                      Properties of the storage                          *)
(***************************************************************************)
ChunkIds == DOMAIN logs \cup DOMAIN metas

\* the WriteChunk call p returns in this step, with an error / with success
ReturnsErr(p) ==
    wpc[p] \in {"mkdir", "create", "write", "meta"} /\ wpc'[p] = "idle"
    /\ restarts' = restarts
ReturnsOk(p) == wpc[p] = "encode" /\ wpc'[p] = "idle" /\ restarts' = restarts

\* C5: whenever the .meta sidecar of a chunk exists, the chunk's .log file exists,
\* holds every entry of the batch and is closed: the data file is written, flushed
\* and closed before the sidecar is created.
C5_DataClosedBeforeSidecar ==
    \A p \in Writers :
        wpc[p] = "encode" /\ wid[p] \in DOMAIN metas =>
            /\ wid[p] \in DOMAIN logs
            /\ logs[wid[p]].data = wbatch[p]
            /\ ~logs[wid[p]].open

\* C6: in every state the .log file of a chunk exists iff its .meta sidecar exists.
C6_LogIffMeta == \A i \in ChunkIds : i \in DOMAIN logs <=> i \in DOMAIN metas

\* C7: when WriteChunk returns an error no file of the chunk is on disk; when it
\* returns success the data file holds every entry of the batch and the sidecar
\* has been written.
C7_Step ==
    \A p \in Writers :
        /\ ReturnsErr(p) => wid[p] \notin DOMAIN logs' /\ wid[p] \notin DOMAIN metas'
        /\ ReturnsOk(p) =>
              /\ wid[p] \in DOMAIN logs' /\ logs'[wid[p]].data = wbatch[p]
              /\ wid[p] \in DOMAIN metas' /\ metas'[wid[p]].meta.written

C7_WriteChunkFailsAtomically == [][C7_Step]_vars

\* C8: no WriteChunk call has opened (created or truncated) the .log file of a
\* chunk that an earlier call sealed: chunk ids are unique, also across a restart.
C8_ChunkIdsUnique ==
    \A p \in Writers :
        wpc[p] \in {"write", "meta", "encode"} /\ wid[p] \in DOMAIN logs =>
            ~logs[wid[p]].sealed

\* C9: when WriteChunk returns success, the startTime it returns is at most the
\* endTime, every entry of the batch lies between them, and the same holds in
\* seconds for the start and end of the sidecar.
C9_Step ==
    \A p \in Writers :
        ReturnsOk(p) =>
            /\ StartTime(wbatch[p]) <= EndTime(wbatch[p])
            /\ \A i \in 1..Len(wbatch[p]) :
                  /\ StartTime(wbatch[p]) <= wbatch[p][i]
                  /\ wbatch[p][i] <= EndTime(wbatch[p])
            /\ wid[p] \in DOMAIN metas' /\ metas'[wid[p]].meta.written =>
                  /\ metas'[wid[p]].meta.start <= metas'[wid[p]].meta.endT
                  /\ \A i \in 1..Len(wbatch[p]) :
                        /\ metas'[wid[p]].meta.start <= Unix(wbatch[p][i])
                        /\ Unix(wbatch[p][i]) <= metas'[wid[p]].meta.endT

C9_TimeRangeCoversEntries == [][C9_Step]_vars

Running == mainPc # "exited"

SeqSet(q) == {q[i] : i \in 1..Len(q)}

\* ingest accepts an entry: it is put on the accept channel and the call succeeds
IngestAccept ==
    /\ Running
    /\ sdPc \in {"waitSignal", "httpShutdown"}
    /\ nextEntry <= MaxEntries
    /\ ChanHasRoom(acceptCh, BufferSize)
    /\ acceptCh' = Append(acceptCh, nextEntry)
    /\ accepted' = IF sdPc = "waitSignal" THEN accepted \cup {nextEntry} ELSE accepted
    /\ nextEntry' = nextEntry + 1
    /\ UNCHANGED <<mainPc, sdPc, stopPc, batcher, retried, stored, dropped>>
    /\ ShutdownFrame

\* the accept channel is full: the call fails fast
IngestReject ==
    /\ Running
    /\ sdPc \in {"waitSignal", "httpShutdown"}
    /\ nextEntry <= MaxEntries
    /\ ~ChanHasRoom(acceptCh, BufferSize)
    /\ nextEntry' = nextEntry + 1
    /\ UNCHANGED <<mainPc, sdPc, stopPc, acceptCh, batcher, retried, stored, dropped,
                   accepted>>
    /\ ShutdownFrame

\* a worker takes an entry from the accept channel to the batcher
Worker ==
    /\ Running
    /\ acceptCh # <<>>
    /\ ~retried
    /\ batcher' = Append(batcher, Head(acceptCh))
    /\ acceptCh' = Tail(acceptCh)
    /\ UNCHANGED <<mainPc, sdPc, stopPc, retried, stored, dropped, accepted, nextEntry>>
    /\ ShutdownFrame

\* the batcher flushes and writeChunk succeeds
FlushOk ==
    /\ Running
    /\ batcher # <<>>
    /\ stored' = stored \cup SeqSet(batcher)
    /\ batcher' = <<>>
    /\ retried' = FALSE
    /\ UNCHANGED <<mainPc, sdPc, stopPc, acceptCh, dropped, accepted, nextEntry>>
    /\ ShutdownFrame

\* writeChunk fails for the first time: the batch is retried
FlushRetry ==
    /\ Running
    /\ batcher # <<>>
    /\ ~retried
    /\ retried' = TRUE
    /\ UNCHANGED <<mainPc, sdPc, stopPc, acceptCh, batcher, stored, dropped, accepted,
                   nextEntry>>
    /\ ShutdownFrame

\* the retry fails: the entries are counted in the error counter and dropped
FlushDrop ==
    /\ Running
    /\ batcher # <<>>
    /\ retried
    /\ dropped' = dropped \cup SeqSet(batcher)
    /\ batcher' = <<>>
    /\ retried' = FALSE
    /\ UNCHANGED <<mainPc, sdPc, stopPc, acceptCh, stored, accepted, nextEntry>>
    /\ ShutdownFrame

\* <-sigChan: SIGINT or SIGTERM arrives
Signal ==
    /\ sdPc = "waitSignal"
    /\ sdPc' = "httpShutdown"
    /\ UNCHANGED <<mainPc, stopPc, acceptCh, batcher, retried, stored, dropped, accepted,
                   nextEntry>>
    /\ ShutdownFrame

\* server.Shutdown(shutdownCtx) returns; ListenAndServe has returned ErrServerClosed
\* and main waits on shutdownComplete
HttpShutdown ==
    /\ sdPc = "httpShutdown"
    /\ sdPc' = "flushStart"
    /\ mainPc' = "waitComplete"
    /\ UNCHANGED <<stopPc, acceptCh, batcher, retried, stored, dropped, accepted,
                   nextEntry>>
    /\ ShutdownFrame

\* mutant of StopStart: the flush is started while server.Shutdown is still draining
StopStartBeforeHttpDrained ==
    /\ sdPc = "httpShutdown"
    /\ sdPc' = "flushWait"
    /\ stopPc' = "running"
    /\ UNCHANGED <<mainPc, acceptCh, batcher, retried, stored, dropped, accepted,
                   nextEntry>>
    /\ ShutdownFrame

\* go func() { ingestor.Stop(); close(flushDone) }()
StopStart ==
    /\ sdPc = "flushStart"
    /\ sdPc' = "flushWait"
    /\ stopPc' = "running"
    /\ UNCHANGED <<mainPc, acceptCh, batcher, retried, stored, dropped, accepted,
                   nextEntry>>
    /\ ShutdownFrame

\* ingestor.Stop returns: the channel is drained, the batcher flushed; flushDone
\* is closed
StopDone ==
    /\ Running
    /\ stopPc = "running"
    /\ acceptCh = <<>>
    /\ batcher = <<>>
    /\ stopPc' = "done"
    /\ UNCHANGED <<mainPc, sdPc, acceptCh, batcher, retried, stored, dropped, accepted,
                   nextEntry>>
    /\ ShutdownFrame

\* case <-flushDone
FlushDone ==
    /\ sdPc = "flushWait"
    /\ stopPc = "done"
    /\ sdPc' = "cancel"
    /\ UNCHANGED <<mainPc, stopPc, acceptCh, batcher, retried, stored, dropped, accepted,
                   nextEntry>>
    /\ ShutdownFrame

\* case <-time.After(10 * time.Second): "WARNING: Ingestor flush timeout"
FlushTimeout ==
    /\ sdPc = "flushWait"
    /\ sdPc' = "cancel"
    /\ UNCHANGED <<mainPc, stopPc, acceptCh, batcher, retried, stored, dropped, accepted,
                   nextEntry>>
    /\ ShutdownFrame

\* rootCancel(): the context of Run, of the retention worker and of the alert
\* evaluator is cancelled
RootCancel ==
    /\ sdPc = "cancel"
    /\ sdPc' = "complete"
    /\ ctxDone' = TRUE
    /\ UNCHANGED <<mainPc, stopPc, acceptCh, batcher, retried, stored, dropped, accepted,
                   nextEntry>>
    /\ UNCHANGED <<clients, gChan, gDisp, gCall, gHist, orphans, connState, hpc>>
    /\ UNCHANGED <<storageVars, queryVars, auxVars>>

\* close(shutdownComplete)
CloseComplete ==
    /\ sdPc = "complete"
    /\ sdPc' = "done"
    /\ UNCHANGED <<mainPc, stopPc, acceptCh, batcher, retried, stored, dropped, accepted,
                   nextEntry>>
    /\ ShutdownFrame

\* <-shutdownComplete; main returns and the process exits
MainExit ==
    /\ mainPc = "waitComplete"
    /\ sdPc = "done"
    /\ mainPc' = "exited"
    /\ UNCHANGED <<sdPc, stopPc, acceptCh, batcher, retried, stored, dropped, accepted,
                   nextEntry>>
    /\ ShutdownFrame

ShutdownNext ==
    \/ IngestAccept
    \/ IngestReject
    \/ Worker
    \/ FlushOk
    \/ FlushRetry
    \/ FlushDrop
    \/ Signal
    \/ HttpShutdown
    \/ StopStart
    \/ StopDone
    \/ FlushDone
    \/ FlushTimeout
    \/ RootCancel
    \/ CloseComplete
    \/ MainExit

SpecShutdown == Init /\ [][ShutdownNext]_vars

(***************************************************************************)
(*                      Properties of the shutdown                         *)
(***************************************************************************)
\* C1: once the process has exited, every entry whose ingest call returned success
\* before the shutdown signal is in storage or was counted as a drop.
C1_ShutdownLosesNoAcceptedEntry ==
    mainPc = "exited" => accepted \subseteq (stored \cup dropped)

(***************************************************************************)
(*            The hub under fair scheduling: eviction, shutdown            *)
(*                                                                         *)
(* The goroutines are scheduled fairly, a select takes each case that is   *)
(* ready again and again sooner or later, a WriteMessage returns (it has a *)
(* write deadline) and the timer of a select fires.  A send on a channel   *)
(* that is full waits: HubUnregSend and ReaderUnregister are enabled only  *)
(* when the channel has room.                                              *)
(***************************************************************************)
HubFairness ==
    /\ SF_vars(HubCtxDone)
    /\ SF_vars(HubRegister)
    /\ SF_vars(HubUnregister)
    /\ SF_vars(HubBroadcast)
    /\ WF_vars(\E c \in HubConns : HubLoopWrite(c))
    /\ WF_vars(WriteOk \/ WriteErr)
    /\ WF_vars(HubDoneOk \/ HubDoneErr \/ HubTimeout)
    /\ WF_vars(HubUnregSend)
    /\ WF_vars(HubReturn)
    /\ WF_vars(\E c \in HubConns : ReaderUnregister(c))

SpecHubLive == SpecHub /\ HubFairness

\* the write of the current entry to c returned an error or timed out: c is in
\* failedConns
MarkedFailed(c) == \E i \in 1..Len(failedConns) : failedConns[i] = c

Evicted(c) == c \notin DOMAIN clients /\ connState[c] = "closed"

\* C11: a subscriber whose write returned an error or timed out is eventually out of
\* the registry with its connection closed.
C11_FailedSubscriberEvicted == \A c \in HubConns : MarkedFailed(c) ~> Evicted(c)

\* C12: when the dispatcher takes an entry from the broadcast channel, the filter it
\* uses for each subscriber is the filter the subscriber asked for last (in its
\* request, or in the last "filter" message that was applied).
C12_Step ==
    (hubPc = "select" /\ hubPc' \in {"loop", "unreg"})
        => \A c \in DOMAIN snap' : snap'[c] = filterOf[c]

C12_FilterUpdateDurable == [][C12_Step]_vars

(***************************************************************************)
(*                 Properties of the shutdown sequence                     *)
(***************************************************************************)
C13_Inv ==
    \* Stop is started only once server.Shutdown has returned
    /\ stopPc # "none" => mainPc # "serving" /\ sdPc \notin {"waitSignal", "httpShutdown"}
    \* up to the end of the wait for the flush the root context is not cancelled
    /\ sdPc \in {"waitSignal", "httpShutdown", "flushStart", "flushWait"} => ~ctxDone
    /\ ctxDone => stopPc # "none"

C13_Step ==
    /\ (sdPc = "waitSignal" /\ sdPc' # sdPc) => sdPc' = "httpShutdown"
    /\ (sdPc = "httpShutdown" /\ sdPc' # sdPc) => sdPc' = "flushStart"
    /\ (stopPc = "none" /\ stopPc' # stopPc) => sdPc = "flushStart"
    \* the wait for the flush ends by flushDone (Stop has returned) or by the timer
    /\ (sdPc # "cancel" /\ sdPc' = "cancel") => sdPc = "flushWait"
    /\ (~ctxDone /\ ctxDone') => sdPc = "cancel"

C14_StopReturnsBeforeExit == mainPc = "exited" => stopPc = "done"

(***************************************************************************)
(* SpecLifecycle: the shutdown sequence of main together with the hub it   *)
(* cancels.  The hub and the handlers run as long as the process does; a   *)
(* connection is upgraded only while the HTTP server serves.               *)
(***************************************************************************)
HttpServing == sdPc \in {"waitSignal", "httpShutdown"}

LifecycleNext ==
    \/ Signal
    \/ HttpShutdown
    \/ StopStart
    \/ StopDone
    \/ FlushDone
    \/ FlushTimeout
    \/ RootCancel
    \/ CloseComplete
    \/ MainExit
    \/ Running /\ \E l \in EntryLabels : Broadcast("w1", l)
    \/ Running /\ BroadcastDrop("w1")
    \/ Running /\ HubCtxDone
    \/ Running /\ HubRegister
    \/ Running /\ HubUnregister
    \/ Running /\ HubBroadcast
    \/ Running /\ \E c \in HubConns : HubLoopWrite(c)
    \/ Running /\ WriteOk
    \/ Running /\ WriteErr
    \/ Running /\ HubDoneOk
    \/ Running /\ HubDoneErr
    \/ Running /\ HubTimeout
    \/ Running /\ HubUnregSend
    \/ Running /\ HubReturn
    \/ Running /\ HttpServing /\ \E c \in HubConns, f \in Filters : Connect(c, f)
    \/ Running /\ \E c \in HubConns : ReaderError(c)
    \/ Running /\ \E c \in HubConns : ReaderUnregister(c)

SpecLifecycle == Init /\ [][LifecycleNext]_vars

\* the connections handed to the register channel and not taken from it yet
PendingConns == {register[i].conn : i \in 1..Len(register)}

\* C15: when the process has exited, the registry is empty and every connection that
\* was registered with the hub or handed to the register channel has been closed.
C15_SubscribersClosedBeforeExit ==
    mainPc = "exited" =>
        /\ DOMAIN clients = {}
        /\ PendingConns = {}
        /\ \A c \in HubConns : connState[c] # "open"

\* C16: once the root context is cancelled, Run eventually returns, whatever the hub
\* was doing, a broadcast in the middle of processBroadcast included.
C16_HubRunReturnsAfterCancel == ctxDone ~> hubPc = "stopped"

(***************************************************************************)
(* The query API: QueryRange and Query of LokiHandler, and the error       *)
(* writers of errors.go.  URL parameters are sequences of one-character    *)
(* strings, so that strconv.Atoi and parseLokiTime parse them.  An instant *)
(* is an integer counted from Go's zero time.Time; the Unix epoch is the   *)
(* instant UnixEpoch.  An RFC3339 text is written "T" followed by the      *)
(* decimal digits of its instant.  The handlers keep no state between      *)
(* requests, so a behaviour handles one request.                           *)
(***************************************************************************)
UnixEpoch == 5
\* time.Now() of a request, counted from the Unix epoch
NowOffset == 3
\* time.Hour and 5 * time.Minute on the model's scale
Hour == 2
FiveMinutes == 1
\* the limit ceiling and the default limits of the two handlers
MaxLimit == 10000
DefaultRangeLimit == 1000
DefaultInstantLimit == 100
StatusOK == 200
StatusBadRequest == 400
StatusInternalServerError == 500

Digits == {"0", "1", "2", "3", "4", "5", "6", "7", "8", "9"}

DigitVal(ch) ==
    CASE ch = "0" -> 0 [] ch = "1" -> 1 [] ch = "2" -> 2 [] ch = "3" -> 3 [] ch = "4" -> 4
      [] ch = "5" -> 5 [] ch = "6" -> 6 [] ch = "7" -> 7 [] ch = "8" -> 8 [] ch = "9" -> 9

IsDigits(s) == Len(s) > 0 /\ \A i \in 1..Len(s) : s[i] \in Digits

RECURSIVE DigitsValue(_)
DigitsValue(s) ==
    IF s = <<>> THEN 0
    ELSE DigitsValue(SubSeq(s, 1, Len(s) - 1)) * 10 + DigitVal(s[Len(s)])

\* strconv.Atoi / strconv.ParseInt(s, 10, 64): an optional sign, then decimal digits
Atoi(s) ==
    IF s # <<>> /\ s[1] \in {"+", "-"}
    THEN IF IsDigits(Tail(s))
         THEN [ok |-> TRUE, val |-> IF s[1] = "-" THEN 0 - DigitsValue(Tail(s))
                                                  ELSE DigitsValue(Tail(s))]
         ELSE [ok |-> FALSE, val |-> 0]
    ELSE IF IsDigits(s) THEN [ok |-> TRUE, val |-> DigitsValue(s)]
         ELSE [ok |-> FALSE, val |-> 0]

\* time.Parse(time.RFC3339, s)
ParseRFC3339(s) ==
    IF s # <<>> /\ s[1] = "T" /\ IsDigits(Tail(s))
    THEN [ok |-> TRUE, t |-> DigitsValue(Tail(s))]
    ELSE [ok |-> FALSE, t |-> 0]

\* nanoseconds since the epoch first, RFC3339 otherwise
parseLokiTime(s) ==
    IF Atoi(s).ok THEN [ok |-> TRUE, t |-> UnixEpoch + Atoi(s).val]
    ELSE ParseRFC3339(s)

\* time.Time.IsZero and time.Time.After
IsZero(t) == t = 0
After(t, u) == t > u

QueryError(type) == [kind |-> "typed", type |-> type, msg |-> ""]
LegacyError(msg) == [kind |-> "legacy", type |-> "", msg |-> msg]

\* the error values Executor.Execute returns: *query.QueryError of the types
\* syntax, regex and storage, and plain errors
ErrorTypes == {"syntax", "regex", "storage"}
LegacyMessages ==
    {"invalid query syntax", "invalid regex pattern", "invalid time range in aggregation",
     "read chunk: input/output error"}
ExecuteErrors == {QueryError(t) : t \in ErrorTypes} \cup {LegacyError(e) : e \in LegacyMessages}

Response(status, code) == [status |-> status, code |-> code]

WriteErrorResponse(statusCode, code) == Response(statusCode, code)

WriteQueryErrorRegexAsBadQuery(err) ==
    WriteErrorResponse(StatusBadRequest, "BAD_QUERY")

WriteQueryError(err) ==
    LET code ==
            IF err.kind = "typed"
            THEN CASE err.type = "syntax" -> "BAD_QUERY"
                   [] err.type = "regex" -> "INVALID_REGEX"
                   [] OTHER -> "BAD_QUERY"
            ELSE CASE err.msg = "invalid query syntax" -> "BAD_QUERY"
                   [] err.msg = "invalid regex pattern" -> "INVALID_REGEX"
                   [] err.msg = "invalid time range in aggregation" -> "INVALID_TIME_RANGE"
                   [] OTHER -> "BAD_QUERY"
    IN  WriteErrorResponse(StatusBadRequest, code)

WriteValidationError == WriteErrorResponse(StatusBadRequest, "VALIDATION_ERROR")

WriteInternalError == WriteErrorResponse(StatusInternalServerError, "INTERNAL_ERROR")

LimitCheckNoCeiling(limitStr, default) ==
    IF limitStr = <<>> THEN [ok |-> TRUE, limit |-> default]
    ELSE IF ~Atoi(limitStr).ok THEN [ok |-> FALSE, limit |-> 0]
    ELSE IF Atoi(limitStr).val <= 0 THEN [ok |-> FALSE, limit |-> 0]
    ELSE [ok |-> TRUE, limit |-> Atoi(limitStr).val]

\* the limit parameter: the default when absent; rejected when Atoi fails, when
\* it is not positive and when it exceeds the ceiling
LimitCheck(limitStr, default) ==
    IF limitStr = <<>> THEN [ok |-> TRUE, limit |-> default]
    ELSE IF ~Atoi(limitStr).ok THEN [ok |-> FALSE, limit |-> 0]
    ELSE IF Atoi(limitStr).val <= 0 THEN [ok |-> FALSE, limit |-> 0]
    ELSE IF Atoi(limitStr).val > MaxLimit THEN [ok |-> FALSE, limit |-> 0]
    ELSE [ok |-> TRUE, limit |-> Atoi(limitStr).val]

QueryStrs == {<<>>, <<"q">>}
TimeStrs == {<<>>, <<"x">>, <<"1">>, <<"4">>, <<"T", "0">>, <<"T", "9">>}
LimitStrs ==
    {<<>>, <<"a">>, <<"0">>, <<"-", "1">>, <<"1">>, <<"+", "7">>,
     <<"1", "0", "0", "0", "0">>, <<"1", "0", "0", "0", "1">>}

Request(handler, query, start, end, limit) ==
    [handler |-> handler, query |-> query, start |-> start, end |-> end, limit |-> limit,
     at |-> UnixEpoch + NowOffset]

RangeRequests ==
    {Request("QueryRange", q, s, e, l) : q \in QueryStrs, s \in TimeStrs, e \in TimeStrs,
                                         l \in LimitStrs}
InstantRequests == {Request("Query", q, <<>>, <<>>, l) : q \in QueryStrs, l \in LimitStrs}

\* the handler returns after writing an error response; Execute was not called
Reject(r, resp) ==
    /\ qpc' = "rejected"
    /\ qreq' = r
    /\ qcall' = NoCall
    /\ qerr' = NoErr
    /\ qresp' = resp

\* h.executor.Execute(queryStr, startTime, endTime, limit) returning err, and
\* the handler's answer: WriteQueryError for every error, the streams otherwise
Execute(r, startTime, endTime, limit, err) ==
    /\ qreq' = r
    /\ qcall' = [called |-> TRUE, start |-> startTime, end |-> endTime, limit |-> limit]
    /\ qerr' = err
    /\ IF err # NoErr
       THEN qpc' = "failed" /\ qresp' = WriteQueryError(err)
       ELSE qpc' = "done" /\ qresp' = Response(StatusOK, "")

\* GET /loki/api/v1/query_range
QueryRange(r, err) ==
    LET start == IF r.start # <<>> THEN parseLokiTime(r.start)
                 ELSE [ok |-> TRUE, t |-> r.at - Hour]
        end == IF r.end # <<>> THEN parseLokiTime(r.end) ELSE [ok |-> TRUE, t |-> r.at]
        lim == LimitCheck(r.limit, DefaultRangeLimit)
    IN  /\ qpc = "idle"
        /\ IF r.query = <<>> THEN Reject(r, WriteValidationError)
           ELSE IF ~start.ok
           THEN Reject(r, WriteErrorResponse(StatusBadRequest, "INVALID_TIME_RANGE"))
           ELSE IF ~end.ok
           THEN Reject(r, WriteErrorResponse(StatusBadRequest, "INVALID_TIME_RANGE"))
           ELSE IF ~IsZero(start.t) /\ ~IsZero(end.t) /\ After(start.t, end.t)
           THEN Reject(r, WriteErrorResponse(StatusBadRequest, "INVALID_TIME_RANGE"))
           ELSE IF ~lim.ok THEN Reject(r, WriteValidationError)
           ELSE Execute(r, start.t, end.t, lim.limit, err)
        /\ QueryFrame

\* GET /loki/api/v1/query
Query(r, err) ==
    LET endTime == r.at
        startTime == endTime - FiveMinutes
        lim == LimitCheck(r.limit, DefaultInstantLimit)
    IN  /\ qpc = "idle"
        /\ IF r.query = <<>> THEN Reject(r, WriteValidationError)
           ELSE IF ~lim.ok THEN Reject(r, WriteValidationError)
           ELSE Execute(r, startTime, endTime, lim.limit, err)
        /\ QueryFrame

QueryNext ==
    \/ \E r \in RangeRequests, err \in ExecuteErrors \cup {NoErr} : QueryRange(r, err)
    \/ \E r \in InstantRequests, err \in ExecuteErrors \cup {NoErr} : Query(r, err)

SpecQuery == Init /\ [][QueryNext]_vars

(***************************************************************************)
(* Properties of the query API                                             *)
(***************************************************************************)
\* the error values of a selector that cannot be parsed, and of a regular
\* expression that does not compile: the typed QueryError and the legacy string
IsSyntaxError(e) == e \in {QueryError("syntax"), LegacyError("invalid query syntax")}
IsRegexError(e) == e \in {QueryError("regex"), LegacyError("invalid regex pattern")}

\* C17: whenever Execute fails with a syntax error the response is HTTP 400 with code
\* BAD_QUERY, and whenever it fails with a regex error the response is HTTP 400 with
\* code INVALID_REGEX, for the typed QueryError and for the legacy error string alike.
C17_SelectorErrorsAre400 ==
    qpc = "failed" =>
        /\ IsSyntaxError(qerr) => qresp = [status |-> 400, code |-> "BAD_QUERY"]
        /\ IsRegexError(qerr) => qresp = [status |-> 400, code |-> "INVALID_REGEX"]

C17_Witness ==
    /\ qpc = "failed"
    /\ qerr = LegacyError("invalid regex pattern")
    /\ qresp = [status |-> 400, code |-> "INVALID_REGEX"]

\* the error values of a failure that is neither a syntax nor a regex error: a
\* disk read that fails or a chunk that is corrupt
IsStorageError(e) ==
    e \in {QueryError("storage"), LegacyError("read chunk: input/output error")}

\* C18: whenever Execute fails with an error that is neither a syntax nor a regex
\* error (a disk I/O failure, a corrupt chunk), QueryRange and Query answer HTTP 500
\* with code INTERNAL_ERROR, never a 400 query error.
C18_StorageErrorsAre500 ==
    (qpc = "failed" /\ IsStorageError(qerr)) =>
        qresp = [status |-> 500, code |-> "INTERNAL_ERROR"]

\* a range request that carries a query
IsRangeQuery(r) == r.handler = "QueryRange" /\ r.query # <<>>
\* start or end is given and is neither an integer nor an RFC3339 text
UnparseableTime(r) ==
    \/ r.start # <<>> /\ ~parseLokiTime(r.start).ok
    \/ r.end # <<>> /\ ~parseLokiTime(r.end).ok
\* start and end are both given, both parse, and start is the later instant
StartAfterEnd(r) ==
    /\ r.start # <<>> /\ parseLokiTime(r.start).ok
    /\ r.end # <<>> /\ parseLokiTime(r.end).ok
    /\ parseLokiTime(r.start).t > parseLokiTime(r.end).t

\* C19: a range query whose start is after its end, or whose start or end cannot be
\* parsed, is answered HTTP 400 with code INVALID_TIME_RANGE, and Execute is not called.
C19_BadTimeRangeRejected ==
    (qpc # "idle" /\ IsRangeQuery(qreq) /\ (UnparseableTime(qreq) \/ StartAfterEnd(qreq))) =>
        /\ qresp = [status |-> 400, code |-> "INVALID_TIME_RANGE"]
        /\ ~qcall.called

\* the limit parameters that are out of range: not a number, not positive, above
\* the ceiling of 10000
NonNumericLimits == {<<"a">>}
NonPositiveLimits == {<<"0">>, <<"-", "1">>}
TooLargeLimits == {<<"1", "0", "0", "0", "1">>}
LimitOutOfRange(r) == r.limit \in NonNumericLimits \cup NonPositiveLimits \cup TooLargeLimits
MissingQuery(r) == r.query = <<>>
ValidationError == [status |-> 400, code |-> "VALIDATION_ERROR"]

\* every call of Execute by a handler carries a limit between 1 and 10000
ExecuteLimitInRange == qcall.called => qcall.limit \in 1..10000

LabelKeys == {"service", "env"}
LabelValues == {"", "api", "db"}
LabelMaps == UNION {[K -> LabelValues] : K \in SUBSET LabelKeys}

\* result := matchesFilter(logLabels, filterLabels)
MatchCall(l, f) ==
    /\ mLabels' = l
    /\ mFilter' = f
    /\ mResult' = <<matchesFilter(l, f)>>
    /\ UNCHANGED <<hubVars, storageVars, shutdownVars, queryVars, ppc, dirVars, lockVars,
                   hmu, bootVars, apiVars>>

MatchNext == \E l \in LabelMaps, f \in LabelMaps : MatchCall(l, f)

SpecMatch == Init /\ [][MatchNext]_vars

\* C21: matchesFilter returns true exactly when the filter is a subset of the labels,
\* every key of the filter being a key of the labels with the same value; this for
\* every pair of maps, a filter with a key whose value is the empty string included.
C21_MatchesIffSubset ==
    mResult # <<>> => (mResult[1] <=> FilterSubset(mFilter, mLabels))

(***************************************************************************)
(* SpecPing: the hub with the ticker loop of HandleStream.  The handler    *)
(* goroutine pings the conn on every tick; when the ping write fails it    *)
(* sends the conn to the unregister channel and returns.                   *)
(***************************************************************************)
\* the handler goroutine of c is in its select: the registration was sent and the
\* reader has not closed done yet
InTickerLoop(c) == hpc[c] \in {"serving", "readerExit"} /\ ppc[c] = "loop"

PingFrame ==
    /\ UNCHANGED <<clients, register, broadcast, gDisp, gCall, gHist, orphans, connState,
                   hpc, ctxDone>>
    /\ UNCHANGED <<storageVars, shutdownVars, queryVars, matchVars, dirVars, lockVars, hmu,
                   bootVars, apiVars>>

\* case <-ticker.C: conn.WriteMessage(websocket.PingMessage, ...) returns an error
PingFail(c) ==
    /\ InTickerLoop(c)
    /\ ppc' = [ppc EXCEPT ![c] = "failed"]
    /\ UNCHANGED unregister
    /\ PingFrame

\* h.hub.unregister <- conn; return
PingUnregister(c) ==
    /\ ppc[c] = "failed"
    /\ ChanHasRoom(unregister, UnregisterCap)
    /\ unregister' = Append(unregister, c)
    /\ ppc' = [ppc EXCEPT ![c] = "returned"]
    /\ PingFrame

\* case <-done: return (the reader has sent its unregister and closed done)
HandlerDone(c) ==
    /\ hpc[c] = "done"
    /\ ppc[c] = "loop"
    /\ ppc' = [ppc EXCEPT ![c] = "returned"]
    /\ UNCHANGED unregister
    /\ PingFrame

PingNext ==
    \/ \E l \in EntryLabels : Broadcast("w1", l)
    \/ BroadcastDrop("w1")
    \/ HubDispatch
    \/ \E c \in HubConns : PingFail(c)
    \/ \E c \in HubConns : PingUnregister(c)
    \/ \E c \in HubConns : HandlerDone(c)

\* a goroutine that can take a step eventually takes it
PingFairness ==
    /\ HubFairness
    /\ WF_vars(\E c \in HubConns : PingUnregister(c))
    /\ WF_vars(\E c \in HubConns : HandlerDone(c))

SpecPing == Init /\ [][PingNext]_vars /\ PingFairness

\* C22: a registered subscriber whose ping fails is eventually removed from the
\* registry and its connection closed.
C22_FailedPingEvicts ==
    \A c \in HubConns : (ppc[c] = "failed" /\ c \in DOMAIN clients) ~> Evicted(c)

(***************************************************************************)
(* SpecDirs: cleanupEmptyDirs on a directory tree below the storage root.  *)
(* filepath.Walk reads the names of a directory, calls the callback for    *)
(* the directory, and then walks the names in lexical order: a directory   *)
(* is visited before the directories below it.  Regular files are visited  *)
(* too; the callback returns at once for them, so they are not walked here *)
(* and count only as entries of their directory.                           *)
(***************************************************************************)
DirPaths == {<<>>, <<"a">>, <<"a", "b">>, <<"a", "b", "c">>, <<"d">>}
Parent(p) == SubSeq(p, 1, Len(p) - 1)
\* the trees: the root, and with every directory its parent
Trees == {T \in SUBSET DirPaths : <<>> \in T /\ \A p \in T \ {<<>>} : Parent(p) \in T}

SubDirs(T, p) == {q \in T : q # <<>> /\ Parent(q) = p}
\* os.ReadDir(path) returns no entry
IsEmptyDir(T, F, p) == SubDirs(T, p) = {} /\ p \notin F

NameRank(n) == CASE n = "a" -> 1 [] n = "b" -> 2 [] n = "c" -> 3 [] n = "d" -> 4
RECURSIVE InLexicalOrder(_)
InLexicalOrder(S) ==
    IF S = {} THEN <<>>
    ELSE LET first == CHOOSE q \in S :
                          \A r \in S : NameRank(q[Len(q)]) <= NameRank(r[Len(r)])
         IN  <<first>> \o InLexicalOrder(S \ {first})

DirFrame ==
    UNCHANGED <<hubVars, storageVars, shutdownVars, queryVars, matchVars, ppc, lockVars,
                hmu, bootVars, apiVars>>

\* cleanupEmptyDirs(basePath) is called; the walk starts at basePath
CedStart(T, F) ==
    /\ dpc = "idle"
    /\ dTree' = T
    /\ dFiles' = F
    /\ dq' = << <<>> >>
    /\ dpc' = "walk"
    /\ dFailed' = {}
    /\ DirFrame

\* the walk reaches the next path: its names are read, then the callback runs.  The
\* callback returns for basePath; otherwise it removes the directory if ReadDir
\* finds it empty, and ignores the error of os.Remove.
CedVisit ==
    /\ dpc = "walk"
    /\ dq # <<>>
    /\ LET path == Head(dq)
           names == InLexicalOrder(SubDirs(dTree, path))
       IN  /\ dq' = names \o Tail(dq)
           /\ IF path # <<>> /\ IsEmptyDir(dTree, dFiles, path)
              THEN \/ dTree' = dTree \ {path} /\ UNCHANGED dFailed
                   \/ dFailed' = dFailed \cup {path} /\ UNCHANGED dTree
              ELSE UNCHANGED <<dTree, dFailed>>
    /\ UNCHANGED <<dFiles, dpc>>
    /\ DirFrame

\* the walk is over: cleanupEmptyDirs returns
CedReturn ==
    /\ dpc = "walk"
    /\ dq = <<>>
    /\ dpc' = "done"
    /\ UNCHANGED <<dTree, dFiles, dq, dFailed>>
    /\ DirFrame

DirNext ==
    \/ \E T \in Trees, F \in SUBSET DirPaths : F \subseteq T /\ CedStart(T, F)
    \/ CedVisit
    \/ CedReturn

SpecDirs == Init /\ [][DirNext]_vars

\* C23: after cleanupEmptyDirs has returned, with no os.Remove having failed, the
\* storage root still exists and no directory other than the root is empty, the
\* directories that became empty during the same sweep included.
C23_NoEmptyDirRemains ==
    (dpc = "done" /\ dFailed = {}) =>
        /\ <<>> \in dTree
        /\ \A p \in dTree \ {<<>>} : ~IsEmptyDir(dTree, dFiles, p)

(***************************************************************************)
(* SpecLock: the mutex of the Writer across WriteChunk calls for the same  *)
(* and for different label sets.  The Writer has one sync.Mutex.           *)
(***************************************************************************)
LockFrame ==
    UNCHANGED <<hubVars, storageVars, shutdownVars, queryVars, matchVars, ppc, dirVars,
                hmu, bootVars, apiVars>>

\* WriteChunk(labels, entries) up to w.mu.Lock(): the chunk id, the paths, MkdirAll
LkBegin(k, labels) ==
    /\ lpc[k] = "idle"
    /\ lpc' = [lpc EXCEPT ![k] = "lock"]
    /\ llabels' = [llabels EXCEPT ![k] = labels]
    /\ UNCHANGED lmu
    /\ LockFrame

\* w.mu.Lock() returns
LkLock(k) ==
    /\ lpc[k] = "lock"
    /\ lmu = "free"
    /\ lmu' = k
    /\ lpc' = [lpc EXCEPT ![k] = "writing"]
    /\ UNCHANGED llabels
    /\ LockFrame

\* os.Create(chunkPath), the writes, the sidecar
LkWrite(k) ==
    /\ lpc[k] = "writing"
    /\ lpc' = [lpc EXCEPT ![k] = "written"]
    /\ UNCHANGED <<llabels, lmu>>
    /\ LockFrame

\* return: the deferred w.mu.Unlock()
LkReturn(k) ==
    /\ lpc[k] = "written"
    /\ lmu' = "free"
    /\ lpc' = [lpc EXCEPT ![k] = "idle"]
    /\ llabels' = [llabels EXCEPT ![k] = EmptyLabels]
    /\ LockFrame

LockNext ==
    \/ \E k \in LockCalls, l \in EntryLabels : LkBegin(k, l)
    \/ \E k \in LockCalls : LkLock(k)
    \/ \E k \in LockCalls : LkWrite(k)
    \/ \E k \in LockCalls : LkReturn(k)

SpecLock == Init /\ [][LockNext]_vars

\* the call creates and writes its files
Writing(k) == lpc[k] \in {"writing", "written"}
\* the call waits at w.mu.Lock() for the call that holds the mutex
WaitsFor(k, j) == lpc[k] = "lock" /\ lmu = j

\* C24: two WriteChunk calls for the same label set never create and write their
\* files at the same time, and a call never waits for a call for a different label
\* set: calls for different label sets write in parallel.
C24_SerializedPerStreamOnly ==
    /\ \A k, j \in LockCalls :
           (k # j /\ Writing(k) /\ Writing(j)) => llabels[k] # llabels[j]
    /\ \A k, j \in LockCalls : WaitsFor(k, j) => llabels[k] = llabels[j]

(***************************************************************************)
(* SpecRegistry: the hub with its registry lock h.mu.  processBroadcast    *)
(* takes the read lock, copies the registry, releases the lock and then    *)
(* writes; Run takes the write lock for a registration, an unregistration  *)
(* and closeAllClients; a reader goroutine takes it to store a new filter. *)
(* The context is not cancelled here, and the dispatcher waits for the     *)
(* result of each write.                                                   *)
(***************************************************************************)
RegistryFrame ==
    UNCHANGED <<storageVars, shutdownVars, queryVars, matchVars, ppc, dirVars, lockVars,
                bootVars, apiVars>>

\* case entry := <-h.broadcast; processBroadcast: h.mu.RLock()
HubRLock ==
    /\ hubPc = "select"
    /\ broadcast # <<>>
    /\ hmu = "free"
    /\ hmu' = "R"
    /\ broadcast' = Tail(broadcast)
    /\ curEntry' = Head(broadcast)
    /\ hubPc' = "copy"
    /\ attemptedCur' = {}
    /\ deliveredCur' = {}
    /\ UNCHANGED <<clients, register, unregister, snap, todo, curConn, done, failedConns,
                   gCall, filterOf, lastRecv, orphans, connState, hpc, ctxDone>>
    /\ RegistryFrame

\* mutant of HubCopy: the read lock is released by a deferred RUnlock, after the writes
HubCopyDeferredUnlock ==
    /\ hubPc = "copy"
    /\ snap' = clients
    /\ todo' = MatchingConns(curEntry, clients)
    /\ failedConns' = <<>>
    /\ hubPc' = NextPc(todo')
    /\ hmu' = "R"
    /\ UNCHANGED <<clients, gChan, curEntry, curConn, done, gCall, gHist, orphans,
                   connState, hpc, ctxDone>>
    /\ RegistryFrame

\* the copy of h.clients into clientsCopy / filtersCopy, then h.mu.RUnlock()
HubCopy ==
    /\ hubPc = "copy"
    /\ snap' = clients
    /\ todo' = MatchingConns(curEntry, clients)
    /\ failedConns' = <<>>
    /\ hubPc' = NextPc(todo')
    /\ hmu' = "free"
    /\ UNCHANGED <<clients, gChan, curEntry, curConn, done, gCall, gHist, orphans,
                   connState, hpc, ctxDone>>
    /\ RegistryFrame

\* the reader goroutine has read a "filter" message: h.hub.mu.Lock()
FilterLock(c) ==
    /\ hpc[c] = "serving"
    /\ hmu = "free"
    /\ hmu' = c
    /\ UNCHANGED hubVars
    /\ RegistryFrame

\* h.hub.clients[conn] = newFilter; h.hub.mu.Unlock()
FilterStore(c, f) ==
    /\ hmu = c
    /\ hmu' = "free"
    /\ clients' = (c :> f) @@ clients
    /\ filterOf' = [filterOf EXCEPT ![c] = f]
    /\ UNCHANGED <<gChan, gDisp, gCall, lastRecv, attemptedCur, deliveredCur, orphans,
                   connState, hpc, ctxDone>>
    /\ RegistryFrame

RegistryNext ==
    \/ \E l \in EntryLabels : Broadcast("w1", l)
    \/ BroadcastDrop("w1")
    \/ hmu = "free" /\ HubRegister
    \/ hmu = "free" /\ HubUnregister
    \/ HubRLock
    \/ HubCopy
    \/ \E c \in HubConns : HubLoopWrite(c)
    \/ WriteOk
    \/ WriteErr
    \/ HubDoneOk
    \/ HubDoneErr
    \/ HubUnregSend
    \/ HubReturn
    \/ \E c \in HubConns, f \in Filters : Connect(c, f)
    \/ \E c \in HubConns : ReaderError(c)
    \/ \E c \in HubConns : ReaderUnregister(c)
    \/ \E c \in HubConns : FilterLock(c)
    \/ \E c \in HubConns, f \in Filters : FilterStore(c, f)
    \/ \E c \in HubConns : PingFail(c)
    \/ \E c \in HubConns : PingUnregister(c)
    \/ \E c \in HubConns : HandlerDone(c)

SpecRegistry == Init /\ [][RegistryNext]_vars

\* a write of the dispatcher to a subscriber connection is in progress
WriteInProgress == done = "pending"
\* a handler goroutine is at its send to the unregister channel and the channel is full
UnsubscribeBlocked ==
    /\ ~ChanHasRoom(unregister, UnregisterCap)
    /\ \E c \in HubConns : hpc[c] = "readerExit" \/ ppc[c] = "failed"

\* C25 as stated: the dispatcher does not hold the registry lock while a write is in
\* progress, and while it waits for a write no unsubscribe is blocked.
C25_NothingBlockedBySlowWrite ==
    /\ WriteInProgress => hmu # "R"
    /\ hubPc = "wait" => ~UnsubscribeBlocked

\* C25: the dispatcher never holds the registry lock while a write to a subscriber
\* connection is in progress or awaited: the lock is free for a filter update, or
\* held by one.
C25_NoLockAcrossWrites == (WriteInProgress \/ hubPc \in {"loop", "wait"}) => hmu # "R"

C25_Witness == hubPc = "wait" /\ done = "pending" /\ hmu \in HubConns

(***************************************************************************)
(* SpecBoot: main from the launch of the alert evaluator to ListenAndServe.*)
(* A goroutine launched by a go statement begins to run at some later      *)
(* time.  The alert evaluator reads main's variable executor without any   *)
(* synchronisation with main's assignment: the read yields nil or the      *)
(* pointer, and through the pointer the fields NewExecutor wrote or not.   *)
(***************************************************************************)
BootSteps ==
    <<"evaluator", "index", "writer", "reader", "executor", "hub", "ingestor",
      "retention", "http">>
Goroutines == {"evaluator", "hub", "ingestor", "retention"}
Started(x) == \E i \in 1..Len(started) : started[i] = x

BootFrame ==
    UNCHANGED <<hubVars, storageVars, shutdownVars, queryVars, matchVars, ppc, dirVars,
                lockVars, hmu, apiVars>>

\* the next statement of main: a go statement, a constructor, ListenAndServe
MainStep ==
    /\ bootPc <= Len(BootSteps)
    /\ started' = Append(started, BootSteps[bootPc])
    /\ bootPc' = bootPc + 1
    /\ executorVar' = IF BootSteps[bootPc] = "executor" THEN "set" ELSE executorVar
    /\ UNCHANGED <<running, evalSaw>>
    /\ BootFrame

\* a launched goroutine begins to run
GoroutineRuns(g) ==
    /\ Started(g)
    /\ g \notin running
    /\ running' = running \cup {g}
    /\ UNCHANGED <<bootPc, started, executorVar, evalSaw>>
    /\ BootFrame

\* case <-ticker.C: EvaluateRules(queryFunc); queryFunc reads executor.  Before the
\* assignment the read yields nil; after it, unordered with it, nil or the pointer.
EvaluatorTick(sawPointer, sawFields) ==
    /\ "evaluator" \in running
    /\ evalSaw' = IF executorVar = "nil" \/ ~sawPointer THEN "skipped"
                  ELSE IF sawFields THEN "used"
                  ELSE "usedUninitialised"
    /\ UNCHANGED <<bootPc, started, running, executorVar>>
    /\ BootFrame

BootNext ==
    \/ MainStep
    \/ \E g \in Goroutines : GoroutineRuns(g)
    \/ \E p \in BOOLEAN, f \in BOOLEAN : EvaluatorTick(p, f)

SpecBoot == Init /\ [][BootNext]_vars

\* x is initialised or launched before y
StartsBefore(x, y) == Started(y) => Started(x)

\* C26: the index, the writer, the reader and the executor are initialised before
\* the hub dispatcher is launched, the hub before the ingestor, the ingestor before
\* the retention sweeper, and the HTTP server listens last; the alert evaluator never
\* uses the executor before it has been initialised.
C26_StartupOrder ==
    /\ \A x \in {"index", "writer", "reader", "executor"} : StartsBefore(x, "hub")
    /\ StartsBefore("hub", "ingestor")
    /\ StartsBefore("ingestor", "retention")
    /\ \A x \in Goroutines : StartsBefore(x, "http")
    /\ evalSaw # "usedUninitialised"

(***************************************************************************)
(*        The dispatcher and its own unregister channel                    *)
(***************************************************************************)
\* the dispatcher is inside processBroadcast
InProcessBroadcast == hubPc \in {"loop", "wait", "unreg"}

\* C27: whatever the number of failed writes and of queued unregister requests,
\* processBroadcast returns and Run is back at its select (or has returned because
\* the context was cancelled there).
C27_ProcessBroadcastReturns == InProcessBroadcast ~> hubPc \in {"select", "stopped"}

(***************************************************************************)
(*              Writers of one subscriber connection                       *)
(***************************************************************************)
\* the write goroutines of processBroadcast that are inside WriteMessage on c: the one
\* the dispatcher awaits and the ones it stopped waiting for after the timeout
WritersOf(c) ==
    Cardinality({o \in orphans : o.conn = c})
        + (IF done = "pending" /\ curConn = c THEN 1 ELSE 0)

\* C28: at most one goroutine writes to a given subscriber connection at any time,
\* a write still pending after the dispatcher's timeout included.
C28_OneWriterPerConn == \A c \in HubConns : WritersOf(c) <= 1

(***************************************************************************)
(*                  The registry holds live subscribers                    *)
(***************************************************************************)
\* C29: every connection in the registry is open; a filter update that races with
\* the eviction or unregistration of its connection does not put it back.
C29_RegistryHoldsLiveConns == \A c \in DOMAIN clients : connState[c] = "open"

(***************************************************************************)
(*            The sweep of empty directories against WriteChunk            *)
(***************************************************************************)
\* the call p has created its stream directory and has not yet created its data file
BetweenMkdirAndCreate(p) == wpc[p] \in {"lock", "create"}

\* C30: in every interleaving of the sweep with a WriteChunk call, the directory the
\* call created is there when the call creates its data file, so the sweep never
\* makes the call fail.
C30_SweepKeepsDirOfWrite == \A p \in Writers : BetweenMkdirAndCreate(p) => dirExists

(***************************************************************************)
(*          Termination of the goroutines of HandleStream                  *)
(***************************************************************************)
\* the reader goroutine of c is at its deferred h.hub.unregister <- conn
ReaderAtUnregister(c) == hpc[c] = "readerExit"

\* C31: the reader goroutine of a subscriber that has reached its deferred send on the
\* unregister channel completes the send and ends, whether Run is busy or has stopped.
C31_ReaderSendCompletes == \A c \in HubConns : ReaderAtUnregister(c) ~> hpc[c] = "done"

(***************************************************************************)
(*                     Repeated unregister requests                        *)
(***************************************************************************)
\* Run takes a request from the unregister channel
UnregisterStep == hubPc = "select" /\ unregister # <<>> /\ unregister' = Tail(unregister)

\* the connection of the request was removed and closed by an earlier request
AlreadyUnregistered(c) == connState[c] = "closed"

C32_Step ==
    UnregisterStep =>
        LET c == Head(unregister) IN
          /\ AlreadyUnregistered(c) => clients' = clients
          /\ \A d \in DOMAIN clients \ {c} : d \in DOMAIN clients' /\ clients'[d] = clients[d]
          /\ \A d \in Conns \ {c} : connState'[d] = connState[d]

\* C32: an unregister request for a connection that an earlier request removed and
\* closed leaves the registry unchanged and closes nothing, and a request never removes
\* or closes another subscriber.
C32_UnregisterIdempotent == [][C32_Step]_vars

(***************************************************************************)
(* SpecAuth: one request that matches a route, through corsMiddleware,     *)
(* loggingMiddleware, authMiddleware (installed when cfg.Auth.Enabled) and *)
(* the route handler.  mux runs the middlewares only for a request that    *)
(* matches a route, so the requests are those of the route table.          *)
(***************************************************************************)
\* the API key of the configuration
APIKey == "secret"

\* the routes of the claim: path and methods
Routes ==
    {<<"/ingest", "POST">>, <<"/ingest", "OPTIONS">>,
     <<"/query", "GET">>, <<"/query", "OPTIONS">>,
     <<"/labels", "GET">>, <<"/labels", "OPTIONS">>,
     <<"/alerts", "GET">>, <<"/alerts", "POST">>, <<"/alerts", "OPTIONS">>,
     <<"/stream", "GET">>}

HeaderKeys == {"", APIKey, "wrong"}
UpgradeValues == {"", "websocket"}

HttpRequests ==
    {[path |-> rt[1], method |-> rt[2], upgrade |-> u, xApiKey |-> k, authorization |-> a] :
        rt \in Routes, u \in UpgradeValues, k \in HeaderKeys, a \in HeaderKeys}

StatusUnauthorized == 401

AuthFrame ==
    UNCHANGED <<hubVars, storageVars, shutdownVars, queryVars, matchVars, ppc, dirVars,
                lockVars, hmu, bootVars, ipVars, cacheVars, groupVars, alertVars>>

\* the router built by NewRouterWithWebhooks from cfg receives r
RouterServe(r, enabled) ==
    /\ apc = "idle"
    /\ authEnabled' = enabled
    /\ areq' = r
    /\ apc' = "cors"
    /\ UNCHANGED <<astatus, ahandled>>
    /\ AuthFrame

\* the handler after the last middleware
AfterLogging == IF authEnabled THEN "auth" ELSE "handler"

corsMiddleware ==
    /\ apc = "cors"
    /\ IF areq.method = "OPTIONS"
       THEN astatus' = StatusOK /\ apc' = "done"
       ELSE astatus' = astatus /\ apc' = "logging"
    /\ UNCHANGED <<authEnabled, areq, ahandled>>
    /\ AuthFrame

loggingMiddleware ==
    /\ apc = "logging"
    /\ apc' = AfterLogging
    /\ UNCHANGED <<authEnabled, areq, astatus, ahandled>>
    /\ AuthFrame

\* key := X-API-Key, or Authorization when X-API-Key is empty
RequestKey(r) == IF r.xApiKey = "" THEN r.authorization ELSE r.xApiKey

\* authMiddleware calls next.ServeHTTP
AuthPasses(r) ==
    \/ r.method = "OPTIONS"
    \/ r.upgrade = "websocket"
    \/ RequestKey(r) = APIKey

authMiddleware ==
    /\ apc = "auth"
    /\ IF AuthPasses(areq)
       THEN astatus' = astatus /\ apc' = "handler"
       ELSE astatus' = StatusUnauthorized /\ apc' = "done"
    /\ UNCHANGED <<authEnabled, areq, ahandled>>
    /\ AuthFrame

\* the handler of the route
RouteHandler ==
    /\ apc = "handler"
    /\ ahandled' = TRUE
    /\ astatus' = StatusOK
    /\ apc' = "done"
    /\ UNCHANGED <<authEnabled, areq>>
    /\ AuthFrame

AuthNext ==
    \/ \E r \in HttpRequests, e \in BOOLEAN : RouterServe(r, e)
    \/ corsMiddleware
    \/ loggingMiddleware
    \/ authMiddleware
    \/ RouteHandler

SpecAuth == Init /\ [][AuthNext]_vars

\* the request presents the configured key in X-API-Key or in Authorization
PresentsKey(r) == r.xApiKey = APIKey \/ r.authorization = APIKey

IsPreflight(r) == r.method = "OPTIONS"
IsStreamUpgrade(r) == r.path = "/stream" /\ r.upgrade = "websocket"

\* C33: with authentication enabled, a request that reaches a route handler is a
\* WebSocket upgrade to /stream or presents the configured API key (a preflight is
\* answered by corsMiddleware); a request without the key to any other route is
\* answered 401 whatever its other headers.
C33_NoHandlerWithoutKey ==
    (authEnabled /\ apc = "done" /\ ~IsPreflight(areq) /\ ~IsStreamUpgrade(areq)
        /\ ~PresentsKey(areq))
        => ~ahandled /\ astatus = StatusUnauthorized

(***************************************************************************)
(* SpecIP: extractIP of the rate limiter.  Addresses and header values are *)
(* sequences of one-character strings; an IP address is written as a       *)
(* string of digits, and RemoteAddr as host ":" port.                      *)
(***************************************************************************)
RemoteAddrs == {<<"1", ":", "8">>, <<"1", ":", "9">>, <<"2", ":", "8">>, <<"2">>}
ForwardedValues == {<<>>, <<"3">>, <<" ", "1", ",", "3">>, <<"x">>}
RealIPValues == {<<>>, <<"4">>, <<"x">>}
TrustedProxySets == {{}, {<<"1">>}, {<<"2">>, <<"3">>}}

IPRequests ==
    {[remoteAddr |-> a, forwarded |-> f, realIP |-> x] :
        a \in RemoteAddrs, f \in ForwardedValues, x \in RealIPValues}

\* the positions of ch in s
IndexesOf(s, ch) == {i \in 1..Len(s) : s[i] = ch}
Max(S) == CHOOSE x \in S : \A y \in S : y <= x
Min(S) == CHOOSE x \in S : \A y \in S : x <= y

\* net.SplitHostPort: host before the last colon, an error without a colon
SplitHostPort(a) ==
    IF IndexesOf(a, ":") = {} THEN [host |-> <<>>, err |-> TRUE]
    ELSE [host |-> SubSeq(a, 1, Max(IndexesOf(a, ":")) - 1), err |-> FALSE]

\* strings.Split(s, ",")[0]
FirstPart(s) ==
    IF IndexesOf(s, ",") = {} THEN s ELSE SubSeq(s, 1, Min(IndexesOf(s, ",")) - 1)

\* strings.TrimSpace
TrimSpace(s) ==
    LET ns == {i \in 1..Len(s) : s[i] # " "}
    IN IF ns = {} THEN <<>> ELSE SubSeq(s, Min(ns), Max(ns))

\* net.ParseIP(s) != nil
ParseIP(s) == IsDigits(s)

\* the host of the direct peer
PeerIP(r) ==
    IF SplitHostPort(r.remoteAddr).err THEN r.remoteAddr
    ELSE SplitHostPort(r.remoteAddr).host

\* mutant of extractIP: the headers are honoured whoever the direct peer is
extractIPTrustingHeaders(r, trustedProxies) ==
    LET candidateIP == TrimSpace(FirstPart(r.forwarded))
    IN IF r.forwarded # <<>> /\ ParseIP(candidateIP) THEN candidateIP
       ELSE IF r.realIP # <<>> /\ ParseIP(r.realIP) THEN r.realIP
       ELSE PeerIP(r)

extractIP(r, trustedProxies) ==
    LET ip == PeerIP(r)
        candidateIP == TrimSpace(FirstPart(r.forwarded))
    IN IF trustedProxies # {} /\ ip \in trustedProxies
       THEN IF r.forwarded # <<>> /\ ParseIP(candidateIP) THEN candidateIP
            ELSE IF r.realIP # <<>> /\ ParseIP(r.realIP) THEN r.realIP
            ELSE ip
       ELSE ip

IpFrame ==
    UNCHANGED <<hubVars, storageVars, shutdownVars, queryVars, matchVars, ppc, dirVars,
                lockVars, hmu, bootVars, authVars, cacheVars, groupVars, alertVars>>

\* Middleware calls extractIP for two requests of a limiter with the proxies tp
ExtractCalls(a, b, tp) ==
    /\ ipOut = <<>>
    /\ ipProxies' = tp
    /\ ipReqs' = <<a, b>>
    /\ ipOut' = <<extractIP(a, tp), extractIP(b, tp)>>
    /\ IpFrame

IpNext == \E a \in IPRequests, b \in IPRequests, tp \in TrustedProxySets : ExtractCalls(a, b, tp)

SpecIP == Init /\ [][IpNext]_vars

SamePeer == ipReqs[1].remoteAddr = ipReqs[2].remoteAddr
PeerUntrusted == PeerIP(ipReqs[1]) \notin ipProxies
HeadersDiffer ==
    ipReqs[1].forwarded # ipReqs[2].forwarded /\ ipReqs[1].realIP # ipReqs[2].realIP

\* C34: two requests with the same RemoteAddr that is not a trusted proxy get the same
\* IP from extractIP, the host of RemoteAddr, whatever their X-Forwarded-For and
\* X-Real-IP headers.
C34_HeadersDoNotChangeIdentity ==
    (ipOut # <<>> /\ SamePeer /\ PeerUntrusted)
        => ipOut[1] = ipOut[2] /\ ipOut[1] = PeerIP(ipReqs[1])

C34_Witness ==
    /\ ipOut # <<>>
    /\ SamePeer
    /\ PeerUntrusted
    /\ ipProxies # {}
    /\ HeadersDiffer
    /\ ParseIP(ipReqs[1].realIP)
    /\ ParseIP(TrimSpace(FirstPart(ipReqs[2].forwarded)))
    /\ ipOut[1] = ipOut[2]

(***************************************************************************)
(* SpecCache: IPRateLimiter.GetLimiter called by two goroutines, and the   *)
(* cleanup of the cleanup loop, under the mutex i.mu, while time passes.   *)
(***************************************************************************)
\* i.ttl, in ticks of the clock
LimiterTTL == 1
MaxClock == 3

CacheFrame ==
    UNCHANGED <<hubVars, storageVars, shutdownVars, queryVars, matchVars, ppc, dirVars,
                lockVars, hmu, bootVars, authVars, ipVars, groupVars, alertVars>>

CacheTick ==
    /\ rlNow < MaxClock
    /\ rlNow' = rlNow + 1
    /\ UNCHANGED <<ips, rlMu, rlPc, rlArg, limSeq, rlHist, rlLast>>
    /\ CacheFrame

\* lim := limiter.GetLimiter(ip) is called
GlCall(g, ip) ==
    /\ rlPc[g] = "idle"
    /\ rlPc' = [rlPc EXCEPT ![g] = "lock"]
    /\ rlArg' = [rlArg EXCEPT ![g] = ip]
    /\ UNCHANGED <<rlNow, ips, rlMu, limSeq, rlHist, rlLast>>
    /\ CacheFrame

\* i.mu.Lock(), of GetLimiter and of cleanup
RlLock(g) ==
    /\ rlPc[g] = "lock"
    /\ rlMu = "free"
    /\ rlMu' = g
    /\ rlPc' = [rlPc EXCEPT ![g] = "body"]
    /\ UNCHANGED <<rlNow, ips, rlArg, limSeq, rlHist, rlLast>>
    /\ CacheFrame

\* mutant of TouchEntry: a hit does not refresh lastAccess
TouchEntryNoRefresh(e, t) == e

\* entry.lastAccess = time.Now()
TouchEntry(e, t) == [e EXCEPT !.lastAccess = t]

\* the body of GetLimiter, its return and the deferred Unlock
GlReturn(g) ==
    /\ rlPc[g] = "body"
    /\ LET ip == rlArg[g]
           exists == ip \in DOMAIN ips
           entry == IF exists THEN TouchEntry(ips[ip], rlNow)
                    ELSE [limiter |-> limSeq + 1, lastAccess |-> rlNow]
       IN /\ ips' = (ip :> entry) @@ ips
          /\ limSeq' = IF exists THEN limSeq ELSE limSeq + 1
          /\ rlHist' = [rlHist EXCEPT ![ip] = [limiter |-> entry.limiter, at |-> rlNow]]
          /\ rlLast' = [op |-> "GetLimiter", ip |-> ip, hit |-> exists,
                        limiter |-> entry.limiter, at |-> rlNow, prev |-> rlHist[ip]]
    /\ rlMu' = "free"
    /\ rlPc' = [rlPc EXCEPT ![g] = "idle"]
    /\ UNCHANGED <<rlNow, rlArg>>
    /\ CacheFrame

\* case <-i.cleanupTicker.C: i.cleanup()
CleanupCall ==
    /\ rlPc[CleanupLoop] = "idle"
    /\ rlPc' = [rlPc EXCEPT ![CleanupLoop] = "lock"]
    /\ UNCHANGED <<rlNow, ips, rlMu, rlArg, limSeq, rlHist, rlLast>>
    /\ CacheFrame

\* now.Sub(entry.lastAccess) > i.ttl
Expired(e, t) == t - e.lastAccess > LimiterTTL

\* the body of cleanup, its return and the deferred Unlock
cleanup ==
    /\ rlPc[CleanupLoop] = "body"
    /\ LET keep == {ip \in DOMAIN ips : ~Expired(ips[ip], rlNow)}
       IN /\ ips' = [ip \in keep |-> ips[ip]]
          /\ rlLast' = [op |-> "cleanup", at |-> rlNow, before |-> ips]
    /\ rlMu' = "free"
    /\ rlPc' = [rlPc EXCEPT ![CleanupLoop] = "idle"]
    /\ UNCHANGED <<rlNow, rlArg, limSeq, rlHist>>
    /\ CacheFrame

CacheNext ==
    \/ CacheTick
    \/ \E g \in LimiterCallers, ip \in LimitedIPs : GlCall(g, ip)
    \/ \E g \in LimiterCallers \cup {CleanupLoop} : RlLock(g)
    \/ \E g \in LimiterCallers : GlReturn(g)
    \/ CleanupCall
    \/ cleanup

SpecCache == Init /\ [][CacheNext]_vars

\* the GetLimiter call that returned last came within the TTL of the one before it
\* for the same ip
AccessedWithinTTL ==
    /\ rlLast.op = "GetLimiter"
    /\ rlLast.prev # NoAccess
    /\ rlLast.at - rlLast.prev.at <= LimiterTTL

\* the entries of m whose last access is older than the TTL at t
OlderThanTTL(m, t) == {ip \in DOMAIN m : t - m[ip].lastAccess > LimiterTTL}

\* C35: a GetLimiter call for an ip that was accessed within the TTL returns the
\* limiter the previous call returned (so do calls that run at the same time), the
\* registry holds one entry per ip with the limiter handed out last, and a cleanup
\* removes exactly the entries whose last access is older than the TTL, leaving the
\* others as they were.
C35_LimiterCacheConsistent ==
    /\ AccessedWithinTTL => rlLast.limiter = rlLast.prev.limiter
    /\ \A ip \in DOMAIN ips : ips[ip].limiter = rlHist[ip].limiter
    /\ rlLast.op = "cleanup" =>
          /\ DOMAIN ips = DOMAIN rlLast.before \ OlderThanTTL(rlLast.before, rlLast.at)
          /\ \A ip \in DOMAIN ips : ips[ip] = rlLast.before[ip]

\* a cleanup has removed the stale entry of one ip and kept the entry of another,
\* which a later call, made one TTL after the previous one, has found
C35_Witness ==
    /\ AccessedWithinTTL
    /\ rlLast.hit
    /\ rlLast.at - rlLast.prev.at = LimiterTTL
    /\ \E ip \in LimitedIPs :
          /\ rlHist[ip] # NoAccess
          /\ ip \notin DOMAIN ips
          /\ rlHist[ip].at < rlLast.prev.at

(***************************************************************************)
(* SpecGroup: the loop of QueryRange and Query that groups result.Logs by  *)
(* labelsToKey.  Label names are one character, label values sequences of  *)
(* characters; a key is the sequence of characters labelsToKey builds.  A  *)
(* range over a Go map visits the keys in an order the runtime chooses at  *)
(* each loop.                                                              *)
(***************************************************************************)
MaxLogs == 2
GroupKeys == {"a", "b"}
GroupValues == {<<"1">>, <<"1", ",", "b", "=", "1">>}
GroupLabelMaps == UNION {[K -> GroupValues] : K \in SUBSET GroupKeys}
ResultLogs == UNION {[1..n -> GroupLabelMaps] : n \in 1..MaxLogs}

\* the orders in which a range visits the keys of labels
RangeOrders(labels) ==
    {o \in [1..Cardinality(DOMAIN labels) -> DOMAIN labels] :
        \A i, j \in DOMAIN o : o[i] = o[j] => i = j}

\* key += k + "=" + v + ",", for the keys in the order o
RECURSIVE labelsToKey(_, _)
labelsToKey(labels, o) ==
    IF o = <<>> THEN <<>>
    ELSE <<Head(o), "=">> \o labels[Head(o)] \o <<",">> \o labelsToKey(labels, Tail(o))

GroupFrame ==
    UNCHANGED <<hubVars, storageVars, shutdownVars, queryVars, matchVars, ppc, dirVars,
                lockVars, hmu, bootVars, authVars, ipVars, cacheVars, alertVars>>

\* the executor has returned logs; streamMap := make(map[string]*LokiStream)
GroupStart(result) ==
    /\ grpPc = "idle"
    /\ grpLogs' = result
    /\ grpNext' = 1
    /\ streamMap' = <<>>
    /\ grpPc' = "loop"
    /\ GroupFrame

\* one iteration of for _, log := range result.Logs
GroupLog(o) ==
    /\ grpPc = "loop"
    /\ grpNext <= Len(grpLogs)
    /\ LET labels == grpLogs[grpNext]
           labelKey == labelsToKey(labels, o)
       IN /\ o \in RangeOrders(labels)
          /\ streamMap' =
                IF labelKey \in DOMAIN streamMap
                THEN [streamMap EXCEPT ![labelKey].values = Append(@, grpNext)]
                ELSE (labelKey :> [stream |-> labels, values |-> <<grpNext>>]) @@ streamMap
    /\ grpNext' = grpNext + 1
    /\ UNCHANGED <<grpPc, grpLogs>>
    /\ GroupFrame

\* the loop is over: the streams of streamMap are the response
GroupRespond ==
    /\ grpPc = "loop"
    /\ grpNext > Len(grpLogs)
    /\ grpPc' = "done"
    /\ UNCHANGED <<grpLogs, grpNext, streamMap>>
    /\ GroupFrame

AllRangeOrders == UNION {RangeOrders(l) : l \in GroupLabelMaps}

GroupNext ==
    \/ \E result \in ResultLogs : GroupStart(result)
    \/ \E o \in AllRangeOrders : GroupLog(o)
    \/ GroupRespond

SpecGroup == Init /\ [][GroupNext]_vars

\* the stream of the response that holds the log i
StreamOf(i) ==
    CHOOSE k \in DOMAIN streamMap : \E n \in DOMAIN streamMap[k].values :
        streamMap[k].values[n] = i

\* C36: in the response two logs are in the same stream if and only if their label
\* maps are equal, each label set is the label set of exactly one stream, and the
\* values of a stream are in the order of the executor's result.
C36_GroupedByLabelSet ==
    grpPc = "done" =>
        /\ \A i, j \in DOMAIN grpLogs :
              (StreamOf(i) = StreamOf(j)) <=> (grpLogs[i] = grpLogs[j])
        /\ \A k1, k2 \in DOMAIN streamMap :
              streamMap[k1].stream = streamMap[k2].stream => k1 = k2
        /\ \A k \in DOMAIN streamMap : \A m, n \in DOMAIN streamMap[k].values :
              m < n => streamMap[k].values[m] < streamMap[k].values[n]

(***************************************************************************)
(* SpecAlerts: the handlers of AlertHandler run by two goroutines on one   *)
(* store.  A body is the decoded JSON, or a body that does not decode.     *)
(* Ids are fresh (16 random bytes); time.Now() is strictly increasing.     *)
(***************************************************************************)
MaxStamps == 3
\* the ids rand.Read generates, in the order of their generation
AlertIds == {1, 2}

StatusCreated == 201
StatusNoContent == 204
StatusNotFound == 404

ValidBody ==
    [decodes |-> TRUE, name |-> "cpu", query |-> "q", condition |-> "gt", threshold |-> 1,
     duration |-> "5m", severity |-> "", webhook |-> ""]

CreateBodies ==
    {ValidBody,
     [ValidBody EXCEPT !.severity = "critical", !.webhook = "w"],
     [ValidBody EXCEPT !.name = ""],
     [ValidBody EXCEPT !.query = ""],
     [ValidBody EXCEPT !.condition = ""],
     [ValidBody EXCEPT !.threshold = -1],
     [ValidBody EXCEPT !.duration = ""],
     [ValidBody EXCEPT !.decodes = FALSE]}

UpdateBodies ==
    {[decodes |-> TRUE, name |-> "mem", query |-> "", condition |-> "", threshold |-> 0,
      duration |-> "", severity |-> "", webhook |-> ""],
     [decodes |-> TRUE, name |-> "", query |-> "q2", condition |-> "lt", threshold |-> 2,
      duration |-> "1h", severity |-> "info", webhook |-> "w2"],
     [ValidBody EXCEPT !.decodes = FALSE]}

StatusBodies ==
    {[decodes |-> TRUE, enabled |-> TRUE], [decodes |-> TRUE, enabled |-> FALSE],
     [decodes |-> FALSE, enabled |-> FALSE]}

AlertRequests ==
    {[op |-> "CreateAlert", id |-> 0, body |-> b] : b \in CreateBodies}
    \cup {[op |-> "GetAlert", id |-> i, body |-> ValidBody] : i \in AlertIds}
    \cup {[op |-> "UpdateAlert", id |-> i, body |-> b] : i \in AlertIds, b \in UpdateBodies}
    \cup {[op |-> "UpdateAlertStatus", id |-> i, body |-> b] :
             i \in AlertIds, b \in StatusBodies}
    \cup {[op |-> "DeleteAlert", id |-> i, body |-> ValidBody] : i \in AlertIds}

\* the requests of each goroutine: the first sends any request, the second the
\* requests that change a rule
RequestsOf(g) ==
    IF g = "h1" THEN AlertRequests
    ELSE {r \in AlertRequests :
            /\ r.op \in {"CreateAlert", "UpdateAlert", "DeleteAlert"}
            /\ r.body.decodes
            /\ r.op = "CreateAlert" => r.body = ValidBody}

AlertFrame ==
    UNCHANGED <<hubVars, storageVars, shutdownVars, queryVars, matchVars, ppc, dirVars,
                lockVars, hmu, bootVars, authVars, ipVars, cacheVars, groupVars>>

\* mutant of CreateValid: the threshold is not checked
CreateValidAnyThreshold(b) ==
    b.name # "" /\ b.query # "" /\ b.condition # "" /\ b.duration # ""

\* the validation of CreateAlert
CreateValid(b) ==
    b.name # "" /\ b.query # "" /\ b.condition # "" /\ b.threshold >= 0 /\ b.duration # ""

\* mutant of AlertMuFree: h.mu excludes nobody
AlertMuIgnored == TRUE

\* h.mu can be taken
AlertMuFree == alMu = "free"

\* the handler returns: the response is written, the deferred Unlock runs
AlertReturn(g, status) ==
    /\ alResp' = [alResp EXCEPT ![g] = [status |-> status, op |-> alReq[g].op,
                                        id |-> alReq[g].id, seq |-> alSeq]]
    /\ alPc' = [alPc EXCEPT ![g] = "idle"]
    /\ alMu' = IF alMu = g THEN "free" ELSE alMu
    /\ alReq' = [alReq EXCEPT ![g] = NoAlertReq]
    /\ alSnap' = [alSnap EXCEPT ![g] = <<>>]

\* the router calls a handler
AlertCall(g, r) ==
    /\ alPc[g] = "idle"
    /\ r \in RequestsOf(g)
    /\ alReq' = [alReq EXCEPT ![g] = r]
    /\ alResp' = [alResp EXCEPT ![g] = NoAlertResp]
    /\ alPc' = [alPc EXCEPT ![g] = "called"]
    /\ UNCHANGED <<alerts, alMu, alSnap, alSeq, alNow>>
    /\ AlertFrame

\* the request is answered 400 before h.mu is taken
RejectedEarly(r) ==
    \/ r.op \in {"CreateAlert", "UpdateAlert", "UpdateAlertStatus"} /\ ~r.body.decodes
    \/ r.op = "CreateAlert" /\ ~CreateValid(r.body)

\* http.Error(w, ..., http.StatusBadRequest) of CreateAlert, UpdateAlert, UpdateAlertStatus
AlertReject(g) ==
    /\ alPc[g] = "called"
    /\ RejectedEarly(alReq[g])
    /\ AlertReturn(g, StatusBadRequest)
    /\ UNCHANGED <<alerts, alSeq, alNow>>
    /\ AlertFrame

\* GetAlert: the lookup under the read lock, the response
GetAlert(g) ==
    /\ alPc[g] = "called"
    /\ alReq[g].op = "GetAlert"
    /\ AlertMuFree
    /\ AlertReturn(g, IF alReq[g].id \in DOMAIN alerts THEN StatusOK ELSE StatusNotFound)
    /\ UNCHANGED <<alerts, alSeq, alNow>>
    /\ AlertFrame

\* h.mu.Lock() of CreateAlert, UpdateAlert, UpdateAlertStatus and DeleteAlert
AlertLock(g) ==
    /\ alPc[g] = "called"
    /\ alReq[g].op \in {"CreateAlert", "UpdateAlert", "UpdateAlertStatus", "DeleteAlert"}
    /\ ~RejectedEarly(alReq[g])
    /\ AlertMuFree
    /\ alMu' = g
    /\ alPc' = [alPc EXCEPT ![g] = "locked"]
    /\ alSnap' = [alSnap EXCEPT ![g] = alerts]
    /\ UNCHANGED <<alerts, alReq, alResp, alSeq, alNow>>
    /\ AlertFrame

\* CreateAlert from the generation of the id to the response
CreateAlert(g) ==
    /\ alPc[g] = "locked"
    /\ alReq[g].op = "CreateAlert"
    /\ alSeq + 1 \in AlertIds
    /\ alNow < MaxStamps
    /\ LET b == alReq[g].body
           id == alSeq + 1
       IN alerts' = (id :> [id |-> id, name |-> b.name, query |-> b.query,
                             condition |-> b.condition, threshold |-> b.threshold,
                             duration |-> b.duration,
                             severity |-> IF b.severity = "" THEN "warning" ELSE b.severity,
                             enabled |-> TRUE, webhook |-> b.webhook,
                             createdAt |-> alNow + 1, updatedAt |-> alNow + 1]) @@ alerts
    /\ alSeq' = alSeq + 1
    /\ alNow' = alNow + 1
    /\ AlertReturn(g, StatusCreated)
    /\ AlertFrame

\* the lookup of UpdateAlert, UpdateAlertStatus and DeleteAlert finds nothing
AlertNotFound(g) ==
    /\ alPc[g] = "locked"
    /\ alReq[g].op \in {"UpdateAlert", "UpdateAlertStatus", "DeleteAlert"}
    /\ alReq[g].id \notin DOMAIN alerts
    /\ AlertReturn(g, StatusNotFound)
    /\ UNCHANGED <<alerts, alSeq, alNow>>
    /\ AlertFrame

\* the fields UpdateAlert copies from the request
UpdateFields(a, b) ==
    [a EXCEPT !.name = IF b.name # "" THEN b.name ELSE @,
              !.query = IF b.query # "" THEN b.query ELSE @,
              !.condition = IF b.condition # "" THEN b.condition ELSE @,
              !.threshold = IF b.threshold > 0 THEN b.threshold ELSE @,
              !.duration = IF b.duration # "" THEN b.duration ELSE @,
              !.severity = IF b.severity # "" THEN b.severity ELSE @,
              !.webhook = IF b.webhook # "" THEN b.webhook ELSE @]

\* UpdateAlert: the lookup and the field updates
UpdateAlert(g) ==
    /\ alPc[g] = "locked"
    /\ alReq[g].op = "UpdateAlert"
    /\ alReq[g].id \in DOMAIN alerts
    /\ alerts' = [alerts EXCEPT ![alReq[g].id] = UpdateFields(@, alReq[g].body)]
    /\ alPc' = [alPc EXCEPT ![g] = "stamp"]
    /\ UNCHANGED <<alMu, alReq, alResp, alSnap, alSeq, alNow>>
    /\ AlertFrame

\* UpdateAlertStatus: the lookup and alert.Enabled = req.Enabled
UpdateAlertStatus(g) ==
    /\ alPc[g] = "locked"
    /\ alReq[g].op = "UpdateAlertStatus"
    /\ alReq[g].id \in DOMAIN alerts
    /\ alerts' = [alerts EXCEPT ![alReq[g].id].enabled = alReq[g].body.enabled]
    /\ alPc' = [alPc EXCEPT ![g] = "stamp"]
    /\ UNCHANGED <<alMu, alReq, alResp, alSnap, alSeq, alNow>>
    /\ AlertFrame

\* alert.UpdatedAt = time.Now() through the pointer the lookup returned, and the
\* response of UpdateAlert and UpdateAlertStatus
AlertStamp(g) ==
    /\ alPc[g] = "stamp"
    /\ alNow < MaxStamps
    /\ alerts' = IF alReq[g].id \in DOMAIN alerts
                 THEN [alerts EXCEPT ![alReq[g].id].updatedAt = alNow + 1]
                 ELSE alerts
    /\ alNow' = alNow + 1
    /\ AlertReturn(g, StatusOK)
    /\ UNCHANGED alSeq
    /\ AlertFrame

\* DeleteAlert: delete(h.alerts, id)
DeleteAlert(g) ==
    /\ alPc[g] = "locked"
    /\ alReq[g].op = "DeleteAlert"
    /\ alReq[g].id \in DOMAIN alerts
    /\ alerts' = [i \in DOMAIN alerts \ {alReq[g].id} |-> alerts[i]]
    /\ AlertReturn(g, StatusNoContent)
    /\ UNCHANGED <<alSeq, alNow>>
    /\ AlertFrame

AlertsNext ==
    \/ \E g \in AlertGoroutines, r \in AlertRequests : AlertCall(g, r)
    \/ \E g \in AlertGoroutines : AlertReject(g)
    \/ \E g \in AlertGoroutines : GetAlert(g)
    \/ \E g \in AlertGoroutines : AlertLock(g)
    \/ \E g \in AlertGoroutines : CreateAlert(g)
    \/ \E g \in AlertGoroutines : AlertNotFound(g)
    \/ \E g \in AlertGoroutines : UpdateAlert(g)
    \/ \E g \in AlertGoroutines : UpdateAlertStatus(g)
    \/ \E g \in AlertGoroutines : AlertStamp(g)
    \/ \E g \in AlertGoroutines : DeleteAlert(g)

SpecAlerts == Init /\ [][AlertsNext]_vars

(***************************************************************************)
(*                     Properties of the alert store                       *)
(***************************************************************************)
\* the handler run by g returns in this step
AlertReturns(g) == alPc[g] # "idle" /\ alPc'[g] = "idle"

\* a body CreateAlert has to reject
CreateInvalid(b) ==
    \/ ~b.decodes
    \/ b.name = ""
    \/ b.query = ""
    \/ b.condition = ""
    \/ b.duration = ""
    \/ b.threshold < 0

AddressesUnknownId(r) ==
    /\ r.op \in {"GetAlert", "UpdateAlert", "UpdateAlertStatus", "DeleteAlert"}
    /\ r.id \notin DOMAIN alerts

C37_UnknownIdStep ==
    \A g \in AlertGoroutines :
        (AlertReturns(g) /\ AddressesUnknownId(alReq[g]))
            => alResp'[g].status = StatusNotFound /\ alerts' = alerts

\* C37 as stated: an operation on an unknown id returns 404 and modifies no rule.
C37_UnknownIdIs404 == [][C37_UnknownIdStep]_vars

C37_Step ==
    \A g \in AlertGoroutines :
        AlertReturns(g) =>
            LET r == alReq[g]
                status == alResp'[g].status
            IN /\ status >= StatusBadRequest =>
                     /\ alerts' = alerts
                     /\ alMu = g => alerts = alSnap[g]
               /\ (r.op = "CreateAlert" /\ CreateInvalid(r.body)) =>
                     status = StatusBadRequest /\ alerts' = alerts
               /\ AddressesUnknownId(r) =>
                     /\ alerts' = alerts
                     /\ \/ status = StatusNotFound
                        \/ status = StatusBadRequest /\ ~r.body.decodes

\* an id that has left the store does not come back: new ids are fresh
C37_IdsStep == \A i \in DOMAIN alerts' \ DOMAIN alerts : i > alSeq

\* C37 (amended): a failed operation leaves the store as it was: a CreateAlert that
\* validation rejects is answered 400 and adds no rule; an operation on an unknown id
\* (a deleted one included) modifies no rule and is answered 404, or 400 when its body
\* does not decode.
C37_FailedOpsLeaveStore == [][C37_Step /\ C37_IdsStep]_vars

\* a DeleteAlert of an id that was deleted before has been answered 404, another rule
\* being in the store
C37_Witness ==
    \E g \in AlertGoroutines :
        /\ alPc[g] = "idle"
        /\ alResp[g].op = "DeleteAlert"
        /\ alResp[g].status = StatusNotFound
        /\ alResp[g].id <= alResp[g].seq
        /\ alerts # <<>>

\* the rule a is the rule b but for Enabled and UpdatedAt
SameButStatus(a, b) == a = [b EXCEPT !.enabled = a.enabled, !.updatedAt = a.updatedAt]

C38_Step ==
    \A g \in AlertGoroutines :
        (AlertReturns(g) /\ alReq[g].op = "UpdateAlertStatus"
            /\ alResp'[g].status = StatusOK)
            => LET id == alReq[g].id
                   before == alSnap[g]
               IN /\ DOMAIN alerts' = DOMAIN before
                  /\ \A i \in DOMAIN before \ {id} : alerts'[i] = before[i]
                  /\ SameButStatus(alerts'[id], before[id])
                  /\ alerts'[id].enabled = alReq[g].body.enabled

\* C38: from the moment UpdateAlertStatus holds the store to its return, the store
\* changes only in the Enabled flag and UpdatedAt of the addressed rule, whatever the
\* other goroutine (an UpdateAlert on the same or another rule) is doing.
C38_StatusChangesOnlyStatus == [][C38_Step]_vars

\* UpdateAlertStatus has disabled a rule while an UpdateAlert for the same rule was
\* waiting, another rule being in the store
C38_Witness ==
    /\ alResp["h1"].op = "UpdateAlertStatus"
    /\ alResp["h1"].status = StatusOK
    /\ alPc["h1"] = "idle"
    /\ alPc["h2"] = "called"
    /\ alReq["h2"].op = "UpdateAlert"
    /\ alReq["h2"].id = alResp["h1"].id
    /\ DOMAIN alerts = AlertIds
    /\ ~alerts[alResp["h1"].id].enabled
====
